---- MODULE Spec2Model ----
(***************************************************************************)
(* RhizoVision Explorer command line interface (rv): command line parsing, *)
(* image collection, the batch loop and the CSV writer.                    *)
(*                                                                         *)
(* Strings are sequences of one-character strings, so that the lexical     *)
(* tests of the parser (first character, regular expression, comma split,  *)
(* atoi/atof/stod) are computed as the code computes them.  Real numbers   *)
(* are fixed-point integers with Scale units per 1.0.                      *)
(***************************************************************************)
EXTENDS Integers, Sequences, FiniteSets, TLC

\* ------------------------------------------------------------------------
\* Bounds of the model
\* ------------------------------------------------------------------------
MaxArgs == 2
MaxImages == 2

\* Fixed-point resolution of a double: 1.0 is Scale
Scale == 1000

\* ------------------------------------------------------------------------
\* Characters and C library conversions
\* ------------------------------------------------------------------------
Digits == {"0", "1", "2", "3", "4", "5", "6", "7", "8", "9"}

WhiteSpace == {" ", "\t", "\r", "\n"}

DigitVal(c) ==
    CASE c = "0" -> 0 [] c = "1" -> 1 [] c = "2" -> 2 [] c = "3" -> 3
      [] c = "4" -> 4 [] c = "5" -> 5 [] c = "6" -> 6 [] c = "7" -> 7
      [] c = "8" -> 8 [] c = "9" -> 9

RECURSIVE Pow10(_)
Pow10(n) == IF n <= 0 THEN 1 ELSE 10 * Pow10(n - 1)

\* first position >= p of s that holds no digit (Len(s)+1 when there is none)
RECURSIVE SkipDigits(_, _)
SkipDigits(s, p) ==
    IF p <= Len(s) /\ s[p] \in Digits THEN SkipDigits(s, p + 1) ELSE p

\* first position >= p of s that holds no white space
RECURSIVE SkipSpace(_, _)
SkipSpace(s, p) ==
    IF p <= Len(s) /\ s[p] \in WhiteSpace THEN SkipSpace(s, p + 1) ELSE p

\* value of the digits s[p..q-1] read as a decimal integer
RECURSIVE DigitsValue(_, _, _)
DigitsValue(s, p, q) ==
    IF q <= p THEN 0 ELSE 10 * DigitsValue(s, p, q - 1) + DigitVal(s[q - 1])

\* value of the digits s[p..q-1] read as a decimal fraction, in Scale units
RECURSIVE FractionValue(_, _, _)
FractionValue(s, p, q) ==
    IF q <= p THEN 0
    ELSE (DigitVal(s[p]) * Scale + FractionValue(s, p + 1, q)) \div 10

\* std::atoi: optional white space, optional sign, then the leading digits;
\* 0 when there are none
atoi(s) ==
    LET p0 == SkipSpace(s, 1)
        neg == p0 <= Len(s) /\ s[p0] = "-"
        p1 == IF p0 <= Len(s) /\ s[p0] \in {"+", "-"} THEN p0 + 1 ELSE p0
        p2 == SkipDigits(s, p1)
        v == DigitsValue(s, p1, p2)
    IN IF neg THEN 0 - v ELSE v

\* the floating point prefix of s starting at p, in Scale units:
\* digits, optional fraction, optional exponent (strtod); 0 when s holds no
\* number there
NumberAt(s, p) ==
    LET p1 == SkipDigits(s, p)
        hasDot == p1 <= Len(s) /\ s[p1] = "."
        p2 == IF hasDot THEN SkipDigits(s, p1 + 1) ELSE p1
        mantOK == (p1 > p) \/ (hasDot /\ p2 > p1 + 1)
        mant == DigitsValue(s, p, p1) * Scale
                  + (IF hasDot THEN FractionValue(s, p1 + 1, p2) ELSE 0)
        hasE == p2 <= Len(s) /\ s[p2] \in {"e", "E"}
        eneg == hasE /\ p2 + 1 <= Len(s) /\ s[p2 + 1] = "-"
        p3 == IF hasE /\ p2 + 1 <= Len(s) /\ s[p2 + 1] \in {"+", "-"}
              THEN p2 + 2 ELSE p2 + 1
        p4 == IF hasE THEN SkipDigits(s, p3) ELSE p2
        ex == IF hasE /\ p4 > p3 THEN DigitsValue(s, p3, p4) ELSE 0
    IN IF ~mantOK THEN 0
       ELSE IF eneg THEN mant \div Pow10(ex) ELSE mant * Pow10(ex)

\* std::atof: optional white space, optional sign, then a number; 0.0 when
\* the text does not start with one
atof(s) ==
    LET p0 == SkipSpace(s, 1)
        neg == p0 <= Len(s) /\ s[p0] = "-"
        p1 == IF p0 <= Len(s) /\ s[p0] \in {"+", "-"} THEN p0 + 1 ELSE p0
        v == NumberAt(s, p1)
    IN IF neg THEN 0 - v ELSE v

\* std::stod on a text that is_positive_number_like accepted
stod(s) == atof(s)

\* ------------------------------------------------------------------------
\* Text helpers of the parser
\* ------------------------------------------------------------------------
\* s.find_first_not_of(ws) from position p: Len(s)+1 stands for npos
FindFirstNotOf(s, p) == SkipSpace(s, p)

\* s.find_last_not_of(ws) searching down from position p: 0 stands for npos
RECURSIVE FindLastNotOf(_, _)
FindLastNotOf(s, p) ==
    IF p >= 1 /\ s[p] \in WhiteSpace THEN FindLastNotOf(s, p - 1) ELSE p

trim_ws(s) ==
    LET a == FindFirstNotOf(s, 1)
        b == FindLastNotOf(s, Len(s))
    IN IF a > Len(s) THEN <<>> ELSE SubSeq(s, a, b)

\* the regular expression ^\+?(?:\d+(?:\.\d*)?|\.\d+)(?:[eE][+-]?\d+)?$
is_positive_number_like(s) ==
    LET p0 == IF Len(s) >= 1 /\ s[1] = "+" THEN 2 ELSE 1
        p1 == SkipDigits(s, p0)
        hasDot == p1 <= Len(s) /\ s[p1] = "."
        p2 == IF hasDot THEN SkipDigits(s, p1 + 1) ELSE p1
        mantOK == (p1 > p0) \/ (hasDot /\ p2 > p1 + 1)
        hasE == p2 <= Len(s) /\ s[p2] \in {"e", "E"}
        p3 == IF hasE /\ p2 + 1 <= Len(s) /\ s[p2 + 1] \in {"+", "-"}
              THEN p2 + 2 ELSE p2 + 1
        p4 == IF hasE THEN SkipDigits(s, p3) ELSE p2
        expOK == ~hasE \/ p4 > p3
    IN mantOK /\ expOK /\ p4 = Len(s) + 1

\* token.find(c): the first position of c in s, Len(s)+1 for npos
RECURSIVE FindChar(_, _, _)
FindChar(s, c, p) ==
    IF p > Len(s) \/ s[p] = c THEN p ELSE FindChar(s, c, p + 1)

\* the pieces std::getline(ss, piece, ',') yields until the stream is at its
\* end: a piece after every comma but the last one when nothing follows it
RECURSIVE GetlinePieces(_, _)
GetlinePieces(s, p) ==
    IF p > Len(s) THEN <<>>
    ELSE LET q == FindChar(s, ",", p)
         IN <<SubSeq(s, p, q - 1)>> \o GetlinePieces(s, q + 1)

\* append_checked_positive_ascending with the value stored and the order
\* test made strict: v must exceed the last cut-point
append_checked_positive_ascending_Strict(v, out) ==
    IF ~(v > 0)
    THEN [thrown |-> TRUE, what |-> "All --dranges values must be positive (> 0).", out |-> out]
    ELSE IF out # <<>> /\ ~(v > out[Len(out)])
    THEN [thrown |-> TRUE, what |-> "Values for --dranges must be ascending.", out |-> out]
    ELSE [thrown |-> FALSE, what |-> "", out |-> Append(out, v)]

\* ------------------------------------------------------------------------
\* --dranges values
\* ------------------------------------------------------------------------
\* append_checked_positive_ascending(v, out): throws for v <= 0 and for a v
\* below out.back(); it returns without storing v in out
append_checked_positive_ascending(v, out) ==
    IF ~(v > 0)
    THEN [thrown |-> TRUE, what |-> "All --dranges values must be positive (> 0).", out |-> out]
    ELSE IF out # <<>> /\ ~(v >= out[Len(out)])
    THEN [thrown |-> TRUE, what |-> "Values for --dranges must be ascending.", out |-> out]
    ELSE [thrown |-> FALSE, what |-> "", out |-> out]

\* what consume_drange_token returns: the flag, the list and the error text
TokenResult(consumed, out, err) == [consumed |-> consumed, out |-> out, err |-> err]

\* the call of append_checked_positive_ascending on a piece of a
\* comma-separated token: r is what it did
RECURSIVE ConsumeCsvPieces(_, _, _, _)
AfterCsvAppend(pieces, k, r) ==
    IF r.thrown THEN TokenResult(TRUE, r.out, r.what)
    ELSE ConsumeCsvPieces(pieces, k + 1, r.out, TRUE)

\* the body of the while loop on the trimmed piece t
CsvPiece(pieces, k, out, saw_any, t) ==
    IF t = <<>> THEN ConsumeCsvPieces(pieces, k + 1, out, saw_any)
    ELSE IF ~is_positive_number_like(t)
    THEN TokenResult(TRUE, out, "Invalid value in --dranges (must be positive number)")
    ELSE AfterCsvAppend(pieces, k, append_checked_positive_ascending(stod(t), out))

\* the while loop over the pieces of a comma-separated token, from piece k
ConsumeCsvPieces(pieces, k, out, saw_any) ==
    IF k > Len(pieces) THEN TokenResult(saw_any, out, "")
    ELSE CsvPiece(pieces, k, out, saw_any, trim_ws(pieces[k]))

\* the single value branch: r is what append_checked_positive_ascending did
AfterSingleAppend(r) == TokenResult(TRUE, r.out, r.what)

\* consume_drange_token after the trimming of raw into token
ConsumeTrimmedToken(token, out) ==
    IF token = <<>> THEN TokenResult(FALSE, out, "")
    ELSE IF token[1] = "-" THEN TokenResult(FALSE, out, "")
    ELSE IF FindChar(token, ",", 1) <= Len(token)
    THEN ConsumeCsvPieces(GetlinePieces(token, 1), 1, out, FALSE)
    ELSE IF is_positive_number_like(token)
    THEN AfterSingleAppend(append_checked_positive_ascending(stod(token), out))
    ELSE TokenResult(FALSE, out, "")

\* consume_drange_token(raw, out, err): consumed is the returned flag
consume_drange_token(raw, out) == ConsumeTrimmedToken(trim_ws(raw), out)

\* ------------------------------------------------------------------------
\* Text of the string literals of the program and of the command lines tried
\* ------------------------------------------------------------------------
Lit ==
    ("-h" :> <<"-", "h">>)
    @@ ("--help" :> <<"-", "-", "h", "e", "l", "p">>)
    @@ ("--version" :> <<"-", "-", "v", "e", "r", "s", "i", "o", "n">>)
    @@ ("--license" :> <<"-", "-", "l", "i", "c", "e", "n", "s", "e">>)
    @@ ("--credits" :> <<"-", "-", "c", "r", "e", "d", "i", "t", "s">>)
    @@ ("-na" :> <<"-", "n", "a">>)
    @@ ("--noappend" :> <<"-", "-", "n", "o", "a", "p", "p", "e", "n", "d">>)
    @@ ("-op" :> <<"-", "o", "p">>)
    @@ ("--output_path" :> <<"-", "-", "o", "u", "t", "p", "u", "t", "_", "p", "a", "t", "h">>)
    @@ ("-o" :> <<"-", "o">>)
    @@ ("--output" :> <<"-", "-", "o", "u", "t", "p", "u", "t">>)
    @@ ("--roipath" :> <<"-", "-", "r", "o", "i", "p", "a", "t", "h">>)
    @@ ("--metafile" :> <<"-", "-", "m", "e", "t", "a", "f", "i", "l", "e">>)
    @@ ("-r" :> <<"-", "r">>)
    @@ ("--recursive" :> <<"-", "-", "r", "e", "c", "u", "r", "s", "i", "v", "e">>)
    @@ ("-v" :> <<"-", "v">>)
    @@ ("--verbose" :> <<"-", "-", "v", "e", "r", "b", "o", "s", "e">>)
    @@ ("-rt" :> <<"-", "r", "t">>)
    @@ ("--roottype" :> <<"-", "-", "r", "o", "o", "t", "t", "y", "p", "e">>)
    @@ ("-t" :> <<"-", "t">>)
    @@ ("--threshold" :> <<"-", "-", "t", "h", "r", "e", "s", "h", "o", "l", "d">>)
    @@ ("-i" :> <<"-", "i">>)
    @@ ("--invert" :> <<"-", "-", "i", "n", "v", "e", "r", "t">>)
    @@ ("-kl" :> <<"-", "k", "l">>)
    @@ ("--keeplargest" :> <<"-", "-", "k", "e", "e", "p", "l", "a", "r", "g", "e", "s", "t">>)
    @@ ("--bgnoise" :> <<"-", "-", "b", "g", "n", "o", "i", "s", "e">>)
    @@ ("--fgnoise" :> <<"-", "-", "f", "g", "n", "o", "i", "s", "e">>)
    @@ ("--bgsize" :> <<"-", "-", "b", "g", "s", "i", "z", "e">>)
    @@ ("--fgsize" :> <<"-", "-", "f", "g", "s", "i", "z", "e">>)
    @@ ("-s" :> <<"-", "s">>)
    @@ ("--smooth" :> <<"-", "-", "s", "m", "o", "o", "t", "h">>)
    @@ ("-st" :> <<"-", "s", "t">>)
    @@ ("--smooththreshold" :> <<"-", "-", "s", "m", "o", "o", "t", "h", "t", "h", "r", "e", "s", "h", "o", "l", "d">>)
    @@ ("--convert" :> <<"-", "-", "c", "o", "n", "v", "e", "r", "t">>)
    @@ ("--factordpi" :> <<"-", "-", "f", "a", "c", "t", "o", "r", "d", "p", "i">>)
    @@ ("--factorpixels" :> <<"-", "-", "f", "a", "c", "t", "o", "r", "p", "i", "x", "e", "l", "s">>)
    @@ ("--prune" :> <<"-", "-", "p", "r", "u", "n", "e">>)
    @@ ("-pt" :> <<"-", "p", "t">>)
    @@ ("--prunethreshold" :> <<"-", "-", "p", "r", "u", "n", "e", "t", "h", "r", "e", "s", "h", "o", "l", "d">>)
    @@ ("--dranges" :> <<"-", "-", "d", "r", "a", "n", "g", "e", "s">>)
    @@ ("--segment" :> <<"-", "-", "s", "e", "g", "m", "e", "n", "t">>)
    @@ ("--feature" :> <<"-", "-", "f", "e", "a", "t", "u", "r", "e">>)
    @@ ("--ssuffix" :> <<"-", "-", "s", "s", "u", "f", "f", "i", "x">>)
    @@ ("--fsuffix" :> <<"-", "-", "f", "s", "u", "f", "f", "i", "x">>)
    @@ ("-ch" :> <<"-", "c", "h">>)
    @@ ("--convexhull" :> <<"-", "-", "c", "o", "n", "v", "e", "x", "h", "u", "l", "l">>)
    @@ ("-ho" :> <<"-", "h", "o">>)
    @@ ("--holes" :> <<"-", "-", "h", "o", "l", "e", "s">>)
    @@ ("-dm" :> <<"-", "d", "m">>)
    @@ ("--distancemap" :> <<"-", "-", "d", "i", "s", "t", "a", "n", "c", "e", "m", "a", "p">>)
    @@ ("-ma" :> <<"-", "m", "a">>)
    @@ ("--medialaxis" :> <<"-", "-", "m", "e", "d", "i", "a", "l", "a", "x", "i", "s">>)
    @@ ("-mw" :> <<"-", "m", "w">>)
    @@ ("--medialaxiswidth" :> <<"-", "-", "m", "e", "d", "i", "a", "l", "a", "x", "i", "s", "w", "i", "d", "t", "h">>)
    @@ ("-to" :> <<"-", "t", "o">>)
    @@ ("--topology" :> <<"-", "-", "t", "o", "p", "o", "l", "o", "g", "y">>)
    @@ ("-co" :> <<"-", "c", "o">>)
    @@ ("--contours" :> <<"-", "-", "c", "o", "n", "t", "o", "u", "r", "s">>)
    @@ ("-cw" :> <<"-", "c", "w">>)
    @@ ("--contourwidth" :> <<"-", "-", "c", "o", "n", "t", "o", "u", "r", "w", "i", "d", "t", "h">>)
    @@ ("_seg" :> <<"_", "s", "e", "g">>)
    @@ ("_features" :> <<"_", "f", "e", "a", "t", "u", "r", "e", "s">>)
    @@ ("features.csv" :> <<"f", "e", "a", "t", "u", "r", "e", "s", ".", "c", "s", "v">>)
    @@ (".png" :> <<".", "p", "n", "g">>)
    @@ (".jpg" :> <<".", "j", "p", "g">>)
    @@ (".jpeg" :> <<".", "j", "p", "e", "g">>)
    @@ (".bmp" :> <<".", "b", "m", "p">>)
    @@ (".tif" :> <<".", "t", "i", "f">>)
    @@ (".tiff" :> <<".", "t", "i", "f", "f">>)
    @@ ("Full" :> <<"F", "u", "l", "l">>)
    @@ ("/" :> <<"/">>)
    @@ ("" :> <<>>)
    @@ ("--pixelconv" :> <<"-", "-", "p", "i", "x", "e", "l", "c", "o", "n", "v">>)
    @@ ("--convfactor" :> <<"-", "-", "c", "o", "n", "v", "f", "a", "c", "t", "o", "r">>)
    @@ ("--saveproc" :> <<"-", "-", "s", "a", "v", "e", "p", "r", "o", "c">>)
    @@ ("0" :> <<"0">>)
    @@ ("1" :> <<"1">>)
    @@ ("2" :> <<"2">>)
    @@ ("140" :> <<"1", "4", "0">>)
    @@ ("180" :> <<"1", "8", "0">>)
    @@ ("300" :> <<"3", "0", "0">>)
    @@ ("-5" :> <<"-", "5">>)
    @@ ("0.05" :> <<"0", ".", "0", "5">>)
    @@ ("0.1" :> <<"0", ".", "1">>)
    @@ ("0.5" :> <<"0", ".", "5">>)
    @@ ("1.5" :> <<"1", ".", "5">>)
    @@ ("2.0" :> <<"2", ".", "0">>)
    @@ ("1.0" :> <<"1", ".", "0">>)
    @@ ("3.0" :> <<"3", ".", "0">>)
    @@ ("0.0" :> <<"0", ".", "0">>)
    @@ ("1.0,3.0,6.0" :> <<"1", ".", "0", ",", "3", ".", "0", ",", "6", ".", "0">>)
    @@ ("1.0,2.5,5.0" :> <<"1", ".", "0", ",", "2", ".", "5", ",", "5", ".", "0">>)
    @@ ("3.0,1.0" :> <<"3", ".", "0", ",", "1", ".", "0">>)
    @@ ("2.0,2.0" :> <<"2", ".", "0", ",", "2", ".", "0">>)
    @@ ("1.0,0.0" :> <<"1", ".", "0", ",", "0", ".", "0">>)
    @@ ("1.0,x" :> <<"1", ".", "0", ",", "x">>)
    @@ ("i.png" :> <<"i", ".", "p", "n", "g">>)
    @@ ("j.PNG" :> <<"j", ".", "P", "N", "G">>)
    @@ ("n.txt" :> <<"n", ".", "t", "x", "t">>)
    @@ ("d" :> <<"d">>)
    @@ ("d/" :> <<"d", "/">>)
    @@ ("x" :> <<"x">>)
    @@ ("o.csv" :> <<"o", ".", "c", "s", "v">>)
    @@ ("/w" :> <<"/", "w">>)
    @@ ("/w/d" :> <<"/", "w", "/", "d">>)
    @@ ("/w/i.png" :> <<"/", "w", "/", "i", ".", "p", "n", "g">>)
    @@ ("/w/j.PNG" :> <<"/", "w", "/", "j", ".", "P", "N", "G">>)
    @@ ("/w/n.txt" :> <<"/", "w", "/", "n", ".", "t", "x", "t">>)
    @@ ("/w/d/a.png" :> <<"/", "w", "/", "d", "/", "a", ".", "p", "n", "g">>)
    @@ ("/w/d/b.jpg" :> <<"/", "w", "/", "d", "/", "b", ".", "j", "p", "g">>)
    @@ ("/w/d/c.tif" :> <<"/", "w", "/", "d", "/", "c", ".", "t", "i", "f">>)
    @@ ("/w/d/s" :> <<"/", "w", "/", "d", "/", "s">>)
    @@ ("/w/d/s/e.bmp" :> <<"/", "w", "/", "d", "/", "s", "/", "e", ".", "b", "m", "p">>)
    @@ ("/w/o.csv" :> <<"/", "w", "/", "o", ".", "c", "s", "v">>)
    @@ ("abc" :> <<"a", "b", "c">>)
    @@ ("12abc" :> <<"1", "2", "a", "b", "c">>)
    @@ ("/w/features.csv" :> <<"/", "w", "/", "f", "e", "a", "t", "u", "r", "e", "s", ".", "c", "s", "v">>)
    @@ ("/w/d/features.csv" :> <<"/", "w", "/", "d", "/", "f", "e", "a", "t", "u", "r", "e", "s", ".", "c", "s", "v">>)
    @@ ("z.png" :> <<"z", ".", "p", "n", "g">>)

\* ------------------------------------------------------------------------
\* std::filesystem paths and the files on disk
\* ------------------------------------------------------------------------
UpperToLower ==
    ("A" :> "a")
    @@ ("B" :> "b")
    @@ ("C" :> "c")
    @@ ("D" :> "d")
    @@ ("E" :> "e")
    @@ ("F" :> "f")
    @@ ("G" :> "g")
    @@ ("H" :> "h")
    @@ ("I" :> "i")
    @@ ("J" :> "j")
    @@ ("K" :> "k")
    @@ ("L" :> "l")
    @@ ("M" :> "m")
    @@ ("N" :> "n")
    @@ ("O" :> "o")
    @@ ("P" :> "p")
    @@ ("Q" :> "q")
    @@ ("R" :> "r")
    @@ ("S" :> "s")
    @@ ("T" :> "t")
    @@ ("U" :> "u")
    @@ ("V" :> "v")
    @@ ("W" :> "w")
    @@ ("X" :> "x")
    @@ ("Y" :> "y")
    @@ ("Z" :> "z")

\* ::tolower on one character
tolower(c) == IF c \in DOMAIN UpperToLower THEN UpperToLower[c] ELSE c

\* s.rfind(c) searching down from position p: 0 when c does not occur
RECURSIVE FindLastChar(_, _, _)
FindLastChar(s, c, p) ==
    IF p < 1 \/ s[p] = c THEN p ELSE FindLastChar(s, c, p - 1)

is_absolute(p) == p # <<>> /\ p[1] = "/"

\* path::filename(): what follows the last separator
filename(p) == SubSeq(p, FindLastChar(p, "/", Len(p)) + 1, Len(p))

\* path::parent_path(): what precedes the last separator
parent_path(p) ==
    LET k == FindLastChar(p, "/", Len(p))
    IN IF k = 0 THEN <<>> ELSE IF k = 1 THEN <<"/">> ELSE SubSeq(p, 1, k - 1)

\* path::extension(): from the last dot of the file name, unless the name
\* starts with it
extension(p) ==
    LET f == filename(p)
        k == FindLastChar(f, ".", Len(f))
    IN IF k <= 1 THEN <<>> ELSE SubSeq(f, k, Len(f))

\* path::stem(): the file name without its extension
stem(p) ==
    LET f == filename(p)
    IN SubSeq(f, 1, Len(f) - Len(extension(p)))

\* operator/ on paths
PathJoin(a, b) ==
    IF is_absolute(b) \/ a = <<>> THEN b
    ELSE IF a[Len(a)] = "/" THEN a \o b
    ELSE a \o <<"/">> \o b

\* the working directory of the process
Cwd == Lit["/w"]

\* fs::absolute
absolute(p) == IF is_absolute(p) THEN p ELSE PathJoin(Cwd, p)

RECURSIVE StripSlashes(_)
StripSlashes(p) ==
    IF Len(p) > 1 /\ p[Len(p)] = "/" THEN StripSlashes(SubSeq(p, 1, Len(p) - 1))
    ELSE p

\* the name under which the disk holds the file or directory p names
Canon(p) == StripSlashes(absolute(p))

\* the directories of the disk
Dirs == {Lit["/"], Lit["/w"], Lit["/w/d"], Lit["/w/d/s"]}

\* A disk is a record [files, order]: files maps the name of a regular file
\* to [kind, sig, lines] and order lists the names as a directory iterator
\* yields them.  kind is what reading the file as an image does: "good",
\* "unreadable" (cv::imread returns an empty matrix), "throws" (the feature
\* extractor throws on it) or "text" (not an image); sig stands for the
\* pixels; lines are the text lines of the file.
is_directory(p, dsk) == p # <<>> /\ Canon(p) \in Dirs

is_regular_file(p, dsk) == p # <<>> /\ Canon(p) \in DOMAIN dsk.files

exists(p, dsk) == is_directory(p, dsk) \/ is_regular_file(p, dsk)

RECURSIVE MapLower(_)
MapLower(s) == IF s = <<>> THEN <<>> ELSE <<tolower(Head(s))>> \o MapLower(Tail(s))

isSupportedImageFile(name) ==
    LET ext == MapLower(extension(name))
    IN ext \in {Lit[".png"], Lit[".jpg"], Lit[".jpeg"], Lit[".bmp"], Lit[".tif"], Lit[".tiff"]}

\* whether the file named f lies in directory dir (under it, when deep)
InDirectory(f, dir, deep) ==
    LET pre == IF dir = <<"/">> THEN dir ELSE dir \o <<"/">>
    IN /\ Len(f) > Len(pre)
       /\ SubSeq(f, 1, Len(pre)) = pre
       /\ (deep \/ parent_path(f) = dir)

\* the entries a directory iterator over inputPath yields, from entry k on,
\* that are supported image files
RECURSIVE IterateDirectory(_, _, _, _)
IterateDirectory(inputPath, deep, dsk, k) ==
    IF k > Len(dsk.order) THEN <<>>
    ELSE LET f == dsk.order[k]
             dir == Canon(inputPath)
             rest == IterateDirectory(inputPath, deep, dsk, k + 1)
         IN IF InDirectory(f, dir, deep) /\ isSupportedImageFile(f)
            THEN <<PathJoin(inputPath, SubSeq(f, Len(dir) + 2, Len(f)))>> \o rest
            ELSE rest

collectImageFiles(inputPath, recursive, dsk) ==
    IF is_regular_file(inputPath, dsk)
    THEN IF isSupportedImageFile(inputPath) THEN <<inputPath>> ELSE <<>>
    ELSE IF is_directory(inputPath, dsk)
    THEN IterateDirectory(inputPath, recursive, dsk, 1)
    ELSE <<>>

\* ------------------------------------------------------------------------
\* Images
\* ------------------------------------------------------------------------
\* A cv::Mat read from a file is the rectangle (x, y, w, h) of the image
\* with pixels sig; bad tells that the feature extractor throws on it.  It
\* is empty when it has no column or no row.
EmptyMat == [sig |-> 0, bad |-> FALSE, x |-> 0, y |-> 0, w |-> 0, h |-> 0]

MatEmpty(m) == m.w = 0 \/ m.h = 0

\* An output image (segmented or processed) covers the matrix area and
\* holds the parts drawn into it: part src drawn at rectangle at.
EmptyOut == [area |-> EmptyMat, parts |-> <<>>]

\* size of every image on the disk
ImgCols == 4
ImgRows == 3

\* cv::imread of the file named path: an empty matrix when there is no such
\* file or it does not decode
imread(path, dsk) ==
    IF is_regular_file(path, dsk)
         /\ dsk.files[Canon(path)].kind \in {"good", "throws"}
    THEN [sig |-> dsk.files[Canon(path)].sig,
          bad |-> dsk.files[Canon(path)].kind = "throws",
          x |-> 0, y |-> 0, w |-> ImgCols, h |-> ImgRows]
    ELSE EmptyMat

\* cv::imwrite of an output image to the file named path
imwrite(path, out, dsk) ==
    LET f == Canon(path)
        rec == [kind |-> "good", sig |-> 0, lines |-> <<>>]
    IN IF f \in DOMAIN dsk.files
       THEN [dsk EXCEPT !.files[f] = rec]
       ELSE [files |-> dsk.files @@ (f :> rec), order |-> Append(dsk.order, f)]

\* ------------------------------------------------------------------------
\* feature_config and parseCommandLine
\* ------------------------------------------------------------------------
\* the member initialisers of feature_config (the fields the CLI uses)
DefaultConfig ==
    [inputPath |-> <<>>, imagefilename |-> <<>>, outputPath |-> <<>>,
     outputFile |-> Lit["features.csv"],
     recursive |-> FALSE, verbose |-> FALSE,
     showHelp |-> FALSE, showHelpMain |-> FALSE, showVersion |-> FALSE,
     showLicense |-> FALSE, showCredits |-> FALSE,
     noappend |-> FALSE, consolemode |-> FALSE,
     roottype |-> 1, threshold |-> 200, invertimage |-> FALSE,
     enablesmooththresh |-> FALSE, smooththresh |-> 2 * Scale,
     keepLargest |-> TRUE, filterbknoise |-> FALSE, filterfgnoise |-> FALSE,
     maxcompsizebk |-> Scale, maxcompsizefg |-> Scale,
     enableRootPruning |-> FALSE, rootPruningThreshold |-> 1,
     pixelconv |-> FALSE, conversion |-> Scale, pixelspermm |-> 0,
     dranges |-> <<2 * Scale, 5 * Scale>>,
     showConvexHull |-> TRUE, showHoles |-> TRUE, showDistMap |-> FALSE,
     showMedialAxis |-> TRUE, medialaxiswidth |-> 3,
     showMedialAxisDiameter |-> TRUE, showContours |-> TRUE, contourwidth |-> 1,
     savesegmented |-> FALSE, saveprocessed |-> FALSE,
     segsuffix |-> <<>>, prosuffix |-> <<>>,
     input |-> EmptyMat, features |-> <<>>, rootlengthhist |-> <<>>,
     roifeatures |-> <<>>,
     seg |-> EmptyOut, processed |-> EmptyOut]

\* The locals of parseCommandLine at its first statement of the loop: the
\* configuration, the flags and factors, the loop index i, what went to
\* std::cerr, and whether the function has returned from inside the loop.
ParserStart ==
    [config |-> [DefaultConfig EXCEPT !.segsuffix = Lit["_seg"],
                                      !.prosuffix = Lit["_features"]],
     contours |-> FALSE, holes |-> FALSE, convexhull |-> FALSE,
     dpi |-> FALSE, pixels |-> FALSE, fgsize |-> FALSE, bgsize |-> FALSE,
     smooththreshold |-> FALSE, prunethresh |-> FALSE,
     ssuffix |-> FALSE, fsuffix |-> FALSE,
     pixelFactor |-> Scale, dpiFactor |-> Scale,
     i |-> 1, cerr |-> <<>>, returned |-> FALSE]

\* the error message without config.showHelp = true
ReportError_NoExit(st, msg) ==
    [st EXCEPT !.cerr = Append(@, [level |-> "Error", text |-> msg])]

\* std::cerr << "Error: ..." followed by config.showHelp = true
ReportError(st, msg) ==
    [st EXCEPT !.config.showHelp = TRUE,
               !.cerr = Append(@, [level |-> "Error", text |-> msg])]

\* std::cerr << "Warning: ..."
ReportWarning(st, msg) ==
    [st EXCEPT !.cerr = Append(@, [level |-> "Warning", text |-> msg])]

\* argv[i + 1], the value of the option at argv[i]
NextArg(args, st) == IF st.i + 1 <= Len(args) THEN args[st.i + 1] ELSE <<>>

\* if (i + 1 < argc) store(argv[++i]) else error: args holds argv[1..argc-1]
\* stored is the state after the value argv[i + 1] has been stored
TakeValue(args, st, stored, msg) ==
    IF st.i + 1 <= Len(args)
    THEN [stored EXCEPT !.i = st.i + 1]
    ELSE ReportError(st, msg)

\* the inner loop of --dranges after consume_drange_token returned r on
\* token j
RECURSIVE ConsumeDranges(_, _, _)
\* AfterDrangeToken that moves past the token the loop stopped at
AfterDrangeToken_SkipsToken(args, st, j, r) ==
    IF ~r.consumed THEN [st EXCEPT !.config.dranges = r.out, !.i = j]
    ELSE IF r.err # ""
    THEN [st EXCEPT !.config.dranges = r.out,
                    !.config.showHelp = TRUE,
                    !.cerr = Append(@, [level |-> "Error", text |-> r.err]),
                    !.i = j, !.returned = TRUE]
    ELSE ConsumeDranges(args, [st EXCEPT !.config.dranges = r.out], j + 1)

AfterDrangeToken(args, st, j, r) ==
    IF ~r.consumed THEN [st EXCEPT !.config.dranges = r.out, !.i = j - 1]
    ELSE IF r.err # ""
    THEN [st EXCEPT !.config.dranges = r.out,
                    !.config.showHelp = TRUE,
                    !.cerr = Append(@, [level |-> "Error", text |-> r.err]),
                    !.i = j, !.returned = TRUE]
    ELSE ConsumeDranges(args, [st EXCEPT !.config.dranges = r.out], j + 1)

\* the inner loop of --dranges from token j on, with st.config.dranges the
\* list filled so far
ConsumeDranges(args, st, j) ==
    IF j > Len(args) THEN [st EXCEPT !.i = j - 1]
    ELSE IF args[j] # <<>> /\ args[j][1] = "-" THEN [st EXCEPT !.i = j - 1]
    ELSE AfterDrangeToken(args, st, j,
                          consume_drange_token(args[j], st.config.dranges))

IsOpt(arg, short, long) == arg = Lit[short] \/ arg = Lit[long]

\* one iteration of the option loop of parseCommandLine, on argv[st.i];
\* gui tells whether the program was built with BUILD_GUI
ParseArg(args, st, gui) ==
    LET arg == args[st.i] IN
    CASE IsOpt(arg, "-h", "--help") ->
           [st EXCEPT !.config.showHelp = TRUE, !.config.showHelpMain = TRUE]
      [] arg = Lit["--version"] -> [st EXCEPT !.config.showVersion = TRUE]
      [] arg = Lit["--license"] -> [st EXCEPT !.config.showLicense = TRUE]
      [] arg = Lit["--credits"] -> [st EXCEPT !.config.showCredits = TRUE]
      [] IsOpt(arg, "-na", "--noappend") -> [st EXCEPT !.config.noappend = TRUE]
      [] IsOpt(arg, "-op", "--output_path") ->
           TakeValue(args, st,
                     [st EXCEPT !.config.outputPath = NextArg(args, st)],
                     "--output_path requires a path.")
      [] IsOpt(arg, "-o", "--output") ->
           TakeValue(args, st,
                     [st EXCEPT !.config.outputFile = NextArg(args, st)],
                     "--output requires a filename.")
      [] gui /\ arg = Lit["--roipath"] ->
           TakeValue(args, st,
                     st,
                     "--roipath requires a path.")
      [] arg = Lit["--metafile"] ->
           TakeValue(args, st,
                     ReportWarning(st, "--metafile option is not implemented yet."),
                     "--metafile requires a filename.")
      [] IsOpt(arg, "-r", "--recursive") -> [st EXCEPT !.config.recursive = TRUE]
      [] IsOpt(arg, "-v", "--verbose") -> [st EXCEPT !.config.verbose = TRUE]
      [] IsOpt(arg, "-rt", "--roottype") ->
           TakeValue(args, st,
                     IF atoi(NextArg(args, st)) = 0 \/ atoi(NextArg(args, st)) = 1
                     THEN [st EXCEPT !.config.roottype = atoi(NextArg(args, st))]
                     ELSE ReportError(st, "--roottype must be 0 (whole) or 1 (broken)."),
                     "--roottype requires a value (0 or 1).")
      [] IsOpt(arg, "-t", "--threshold") ->
           TakeValue(args, st,
                     IF atoi(NextArg(args, st)) >= 0 /\ atoi(NextArg(args, st)) <= 255
                     THEN [st EXCEPT !.config.threshold = atoi(NextArg(args, st))]
                     ELSE ReportError(st, "--threshold must be between 0 and 255."),
                     "--threshold requires a value.")
      [] IsOpt(arg, "-i", "--invert") -> [st EXCEPT !.config.invertimage = TRUE]
      [] IsOpt(arg, "-kl", "--keeplargest") -> [st EXCEPT !.config.keepLargest = TRUE]
      [] arg = Lit["--bgnoise"] -> [st EXCEPT !.config.filterbknoise = TRUE]
      [] arg = Lit["--fgnoise"] -> [st EXCEPT !.config.filterfgnoise = TRUE]
      [] arg = Lit["--bgsize"] ->
           TakeValue(args, [st EXCEPT !.bgsize = TRUE],
                     [[st EXCEPT !.bgsize = TRUE] EXCEPT !.config.maxcompsizebk = atof(NextArg(args, st))],
                     "--bgsize requires a value.")
      [] arg = Lit["--fgsize"] ->
           TakeValue(args, [st EXCEPT !.fgsize = TRUE],
                     [[st EXCEPT !.fgsize = TRUE] EXCEPT !.config.maxcompsizefg = atof(NextArg(args, st))],
                     "--fgsize requires a value.")
      [] IsOpt(arg, "-s", "--smooth") -> [st EXCEPT !.config.enablesmooththresh = TRUE]
      [] IsOpt(arg, "-st", "--smooththreshold") ->
           TakeValue(args, [st EXCEPT !.smooththreshold = TRUE],
                     [[st EXCEPT !.smooththreshold = TRUE] EXCEPT !.config.smooththresh = atof(NextArg(args, st))],
                     "--smooththreshold requires a value.")
      [] arg = Lit["--convert"] -> [st EXCEPT !.config.pixelconv = TRUE]
      [] arg = Lit["--factordpi"] ->
           TakeValue(args, st,
                     [st EXCEPT !.dpiFactor = atof(NextArg(args, st)), !.dpi = TRUE],
                     "--factordpi requires a value.")
      [] arg = Lit["--factorpixels"] ->
           TakeValue(args, st,
                     [st EXCEPT !.pixelFactor = atof(NextArg(args, st)), !.pixels = TRUE],
                     "--factorpixels requires a value.")
      [] arg = Lit["--prune"] -> [st EXCEPT !.config.enableRootPruning = TRUE]
      [] IsOpt(arg, "-pt", "--prunethreshold") ->
           TakeValue(args, [st EXCEPT !.prunethresh = TRUE],
                     [[st EXCEPT !.prunethresh = TRUE] EXCEPT !.config.rootPruningThreshold = atoi(NextArg(args, st))],
                     "--prunethreshold requires a value.")
      [] arg = Lit["--dranges"] ->
           ConsumeDranges(args, [st EXCEPT !.config.dranges = <<>>], st.i + 1)
      [] arg = Lit["--segment"] -> [st EXCEPT !.config.savesegmented = TRUE]
      [] arg = Lit["--feature"] -> [st EXCEPT !.config.saveprocessed = TRUE]
      [] arg = Lit["--ssuffix"] ->
           TakeValue(args, [st EXCEPT !.ssuffix = TRUE],
                     [[st EXCEPT !.ssuffix = TRUE] EXCEPT !.config.segsuffix = NextArg(args, st)],
                     "--ssuffix requires a value.")
      [] arg = Lit["--fsuffix"] ->
           TakeValue(args, [st EXCEPT !.fsuffix = TRUE],
                     [[st EXCEPT !.fsuffix = TRUE] EXCEPT !.config.prosuffix = NextArg(args, st)],
                     "--fsuffix requires a value.")
      [] IsOpt(arg, "-ch", "--convexhull") ->
           [st EXCEPT !.config.showConvexHull = TRUE, !.convexhull = TRUE]
      [] IsOpt(arg, "-ho", "--holes") ->
           [st EXCEPT !.holes = TRUE, !.config.showHoles = TRUE]
      [] IsOpt(arg, "-dm", "--distancemap") -> [st EXCEPT !.config.showDistMap = TRUE]
      [] IsOpt(arg, "-ma", "--medialaxis") -> [st EXCEPT !.config.showMedialAxis = TRUE]
      [] IsOpt(arg, "-mw", "--medialaxiswidth") ->
           TakeValue(args, st,
                     [st EXCEPT !.config.medialaxiswidth = atoi(NextArg(args, st))],
                     "--medialaxiswidth requires a value.")
      [] IsOpt(arg, "-to", "--topology") ->
           [st EXCEPT !.config.showMedialAxisDiameter = FALSE]
      [] IsOpt(arg, "-co", "--contours") ->
           [st EXCEPT !.config.showContours = TRUE, !.contours = TRUE]
      [] IsOpt(arg, "-cw", "--contourwidth") ->
           TakeValue(args, st,
                     [st EXCEPT !.config.contourwidth = atoi(NextArg(args, st))],
                     "--contourwidth requires a value.")
      [] OTHER ->
           IF arg = <<>> \/ arg[1] # "-"
           THEN IF st.config.inputPath = <<>>
                THEN [st EXCEPT !.config.inputPath = arg]
                ELSE ReportError(st, "Multiple input paths specified.")
           ELSE ReportError(st, "Unknown option")

\* the for loop over argv[1..argc-1]: st1 is the state after the body
RECURSIVE ParseLoop(_, _, _)
\* LoopStep that switches the convex hull off for broken roots after every
\* argument
LoopStep_OverrideAtOnce(args, st1, gui) ==
    IF st1.returned THEN st1
    ELSE ParseLoop(args,
                   [st1 EXCEPT !.i = st1.i + 1,
                               !.config.showConvexHull =
                                   @ /\ ~(st1.config.roottype = 1 /\ st1.convexhull)],
                   gui)

LoopStep(args, st1, gui) ==
    IF st1.returned THEN st1
    ELSE ParseLoop(args, [st1 EXCEPT !.i = st1.i + 1], gui)

ParseLoop(args, st, gui) ==
    IF st.returned \/ st.i > Len(args) THEN st
    ELSE LoopStep(args, ParseArg(args, st, gui), gui)

\* std::is_sorted
RECURSIVE is_sorted(_)
is_sorted(v) ==
    Len(v) < 2 \/ (v[1] <= v[2] /\ is_sorted(Tail(v)))

\* the validation loop over config.dranges from index k on (1-based):
\* the error it reports, "" when it reports none
RECURSIVE ValidateDranges(_, _)
ValidateDranges(v, k) ==
    IF k > Len(v) THEN ""
    ELSE IF ~(v[k] > 0) THEN "--dranges must contain positive values."
    ELSE IF k > 1 /\ ~(v[k] >= v[k - 1]) THEN "--dranges must be ascending."
    ELSE ValidateDranges(v, k + 1)

\* the default of config.outputPath: the input directory, or the directory
\* of the input file
DefaultOutputPath(inPath, dsk) ==
    IF is_directory(inPath, dsk) THEN inPath
    ELSE IF parent_path(inPath) # <<>> THEN parent_path(inPath)
    ELSE parent_path(absolute(inPath))

\* the dependent options without their feature reported as errors
DependentWarnings_Errors(st) ==
    LET W(c, msg, s) == IF c THEN ReportError(s, msg) ELSE s
    IN W(st.fsuffix /\ ~st.config.saveprocessed, "--fsuffix requires --feature.",
       W(st.ssuffix /\ ~st.config.savesegmented, "--ssuffix requires --segment.",
       W(st.prunethresh /\ ~st.config.enableRootPruning, "--prunethreshold requires --prune.",
       W(st.smooththreshold /\ ~st.config.enablesmooththresh, "--smooththreshold requires --smooth.",
       W(st.bgsize /\ ~st.config.filterbknoise, "--bgsize requires --bgnoise.",
       W(st.fgsize /\ ~st.config.filterfgnoise, "--fgsize requires --fgnoise.",
         st))))))

\* the warnings about an option given without the feature it belongs to
DependentWarnings(st) ==
    LET W(c, msg, s) == IF c THEN ReportWarning(s, msg) ELSE s
    IN W(st.fsuffix /\ ~st.config.saveprocessed,
         "--fsuffix is set but --feature is not enabled. Ignoring --fsuffix.",
       W(st.ssuffix /\ ~st.config.savesegmented,
         "--ssuffix is set but --segment is not enabled. Ignoring --ssuffix.",
       W(st.prunethresh /\ ~st.config.enableRootPruning,
         "--prunethreshold is set but --prune is not enabled. Ignoring --prunethreshold.",
       W(st.smooththreshold /\ ~st.config.enablesmooththresh,
         "--smooththreshold is set but --smooth is not enabled. Ignoring --smooththreshold.",
       W(st.bgsize /\ ~st.config.filterbknoise,
         "--bgsize is set but --bgnoise is not enabled. Ignoring --bgsize.",
       W(st.fgsize /\ ~st.config.filterfgnoise,
         "--fgsize is set but --fgnoise is not enabled. Ignoring --fgsize.",
         st))))))

\* the dranges checks and the closing warnings of parseCommandLine
CheckDranges(st) ==
    IF Len(st.config.dranges) > 0 /\ ~is_sorted(st.config.dranges)
    THEN ReportError(st, "Diameter ranges (--dranges) must be in ascending order.")
    ELSE IF ValidateDranges(st.config.dranges, 1) # ""
    THEN ReportError(st, ValidateDranges(st.config.dranges, 1))
    ELSE DependentWarnings(st)

\* the unit conversion with --factordpi tested before --factorpixels
ResolveConversion_DpiFirst(st) ==
    IF st.config.pixelconv
    THEN IF st.dpi
         THEN [st EXCEPT !.config.conversion = st.dpiFactor, !.config.pixelspermm = 0]
         ELSE IF st.pixels
         THEN [st EXCEPT !.config.conversion = st.pixelFactor, !.config.pixelspermm = 1]
         ELSE [st EXCEPT !.config.conversion = Scale, !.config.pixelspermm = 0]
    ELSE [st EXCEPT !.config.conversion = Scale, !.config.pixelspermm = 0]

\* the unit conversion the options select
ResolveConversion(st) ==
    IF st.config.pixelconv
    THEN IF st.pixels
         THEN [st EXCEPT !.config.conversion = st.pixelFactor,
                         !.config.pixelspermm = 1,
                         !.cerr = IF st.dpi
                                  THEN Append(@, [level |-> "Warning",
                                                  text |-> "Both --factorpixels and --factordpi are set. Using --factorpixels."])
                                  ELSE @]
         ELSE IF st.dpi
         THEN [st EXCEPT !.config.conversion = st.dpiFactor, !.config.pixelspermm = 0]
         ELSE [st EXCEPT !.config.conversion = Scale, !.config.pixelspermm = 0]
    ELSE [st EXCEPT !.config.conversion = Scale,
                    !.config.pixelspermm = 0,
                    !.cerr = IF st.dpi \/ st.pixels
                             THEN Append(@, [level |-> "Warning",
                                             text |-> "Conversion factor provided but --convert is not set. Ignoring conversion factor."])
                             ELSE @]

\* convex hull, holes and contours are switched off for broken roots when
\* one of their options was given
BrokenRootOverride(st) ==
    IF st.config.roottype = 1 /\ (st.convexhull \/ st.holes \/ st.contours)
    THEN [ReportWarning(st, "Convex hull, holes, and contours options are ignored for broken roots.")
            EXCEPT !.config.showConvexHull = FALSE,
                   !.config.showHoles = FALSE,
                   !.config.showContours = FALSE]
    ELSE st

\* the rest of parseCommandLine once config.outputFile is resolved
FinishParse(st) == CheckDranges(ResolveConversion(BrokenRootOverride(st)))

\* the resolution of a relative config.outputFile into combinedPath
ResolveRelative(st, combinedPath, dsk) ==
    IF parent_path(combinedPath) # <<>> /\ ~exists(parent_path(combinedPath), dsk)
    THEN ReportError(st, "Directory for output file does not exist.")
    ELSE FinishParse([st EXCEPT !.config.outputFile = combinedPath])

\* the resolution of config.outputFile against config.outputPath
ResolveOutputFile(st, dsk) ==
    IF st.config.outputFile # <<>>
    THEN IF is_directory(st.config.outputFile, dsk)
         THEN ReportError(st, "Output file is a directory.")
         ELSE IF is_absolute(st.config.outputFile)
         THEN IF parent_path(st.config.outputFile) # <<>>
                   /\ ~exists(parent_path(st.config.outputFile), dsk)
              THEN ReportError(st, "Directory for output file does not exist.")
              ELSE FinishParse(st)
         ELSE ResolveRelative(st, PathJoin(st.config.outputPath, st.config.outputFile), dsk)
    ELSE FinishParse([st EXCEPT !.config.outputFile =
                                    PathJoin(st.config.outputPath, Lit["features.csv"])])

\* the check of config.outputPath
CheckOutputPath(st, dsk) ==
    IF ~exists(st.config.outputPath, dsk)
    THEN ReportError(st, "Output path does not exist.")
    ELSE ResolveOutputFile(st, dsk)

\* parseCommandLine after the option loop left the locals st
AfterLoop(st, dsk) ==
    IF st.returned THEN st
    ELSE IF st.config.inputPath = <<>>
    THEN IF ~(st.config.showHelp \/ st.config.showVersion
                \/ st.config.showLicense \/ st.config.showCredits)
         THEN ReportError(st, "No input path specified.")
         ELSE st
    ELSE IF st.config.outputPath = <<>>
    THEN CheckOutputPath([st EXCEPT !.config.outputPath =
                                       DefaultOutputPath(st.config.inputPath, dsk)], dsk)
    ELSE CheckOutputPath(st, dsk)

\* parseCommandLine(argc, argv) on the disk dsk: the locals at the return
\* statement taken; config is the value returned
parseCommandLine(args, dsk, gui) == AfterLoop(ParseLoop(args, ParserStart, gui), dsk)

\* ------------------------------------------------------------------------
\* The feature extractor and analyzeImage
\* ------------------------------------------------------------------------
\* A feature value is [cls, num]: cls is "finite", "nan" or "inf" and num is
\* the value of a finite one in Scale units.
Finite(v) == [cls |-> "finite", num |-> v]

isnan(feature) == feature.cls = "nan"

isinf(feature) == feature.cls = "inf"

IsZero(feature) == feature.cls = "finite" /\ feature.num = 0

\* number of fixed feature fields of a root type
FixedFieldCount(roottype) == IF roottype = 0 THEN 24 ELSE 12

\* the feature vector of the input: one value per fixed field of the root
\* type and four series of one value per diameter range
FeatureVector(config) ==
    [k \in 1..(FixedFieldCount(config.roottype) + 4 * (Len(config.dranges) + 1))
       |-> Finite(config.input.sig * Scale)]

\* feature_extractor(config): fills features, rootlengthhist, seg and
\* processed from input
feature_extractor(config) ==
    [config EXCEPT !.features = FeatureVector(config),
                   !.rootlengthhist = <<Finite(config.input.sig * Scale)>>,
                   !.seg = [area |-> config.input,
                            parts |-> <<[at |-> config.input, src |-> config.input]>>],
                   !.processed = [area |-> config.input,
                                  parts |-> <<[at |-> config.input, src |-> config.input]>>]]

\* src.copyTo(dst) for dst a view on the canvas: the part is drawn when src
\* has the size of the view, otherwise the view is reallocated and the
\* canvas stays as it is
CopyTo(src, view, canvas) ==
    IF ~MatEmpty(src.area) /\ src.area.w = view.w /\ src.area.h = view.h
    THEN [canvas EXCEPT !.parts = Append(@, [at |-> view, src |-> src.area])]
    ELSE canvas

\* what analyzeImage leaves: ok is the returned flag, config and dsk are the
\* configuration and the disk it leaves, cerr what it wrote to std::cerr and
\* log the images read and the inputs the extractor ran on
Analysis(ok, config, dsk, cerr, log) ==
    [ok |-> ok, config |-> config, dsk |-> dsk, cerr |-> cerr, log |-> log]

ErrorLine(text) == [level |-> "Error", text |-> text]

WarningLine(text) == [level |-> "Warning", text |-> text]

\* whether the rectangle rect passes the bounds test of analyzeImage
RoiInside(rect, input) ==
    (rect.x + rect.w + 1) <= input.w /\ (rect.y + rect.h + 1) <= input.h

\* the sub-image handed to the extractor for rect
RoiInput(rect, input) ==
    IF RoiInside(rect, input)
    THEN [input EXCEPT !.x = rect.x, !.y = rect.y, !.w = rect.w, !.h = rect.h]
    ELSE input

\* the end of one iteration of the region loop: c2 is the configuration
\* after the extractor (when it ran) on ip
RECURSIVE RoiLoop(_, _, _, _)
RoiDone(input, rois, i, a, ip, c2, ran) ==
    RoiLoop(input, rois, i + 1,
            [a EXCEPT !.config = c2,
                      !.features = Append(@, c2.features),
                      !.outputs = CopyTo(c2.processed, ip, @),
                      !.segs = CopyTo(c2.seg, ip, @),
                      !.cerr = IF RoiInside(rois[i], input) THEN @
                               ELSE Append(@, WarningLine("Ignoring the region-of-interest, as it is out-of-bounds for the image.")),
                      !.log = IF ran THEN Append(@, [ev |-> "extract", input |-> ip])
                              ELSE @])

\* one iteration of the region loop on the sub-image ip, with c1 the
\* configuration handed to the extractor
RoiStep(input, rois, i, a, ip, c1) ==
    IF rois[i].h > 0 /\ rois[i].w > 0
    THEN IF ip.bad
         THEN [a EXCEPT !.config = c1, !.thrown = TRUE,
                        !.log = Append(@, [ev |-> "extract", input |-> ip])]
         ELSE RoiDone(input, rois, i, a, ip, feature_extractor(c1), TRUE)
    ELSE RoiDone(input, rois, i, a, ip, c1, FALSE)

\* the loop of analyzeImage over the regions of interest, from region i on;
\* a is [config, features, outputs, segs, cerr, log, thrown]
RoiLoop(input, rois, i, a) ==
    IF i > Len(rois) \/ a.thrown THEN a
    ELSE RoiStep(input, rois, i, a, RoiInput(rois[i], input),
                 [a.config EXCEPT !.input = RoiInput(rois[i], input),
                                  !.features = <<>>,
                                  !.rootlengthhist = <<>>])

\* the path of an image analyzeImage saves with the given suffix
SavePath(config, suffix) ==
    PathJoin(config.outputPath, stem(config.inputPath) \o suffix \o Lit[".png"])

\* the saving of the processed image, when asked for
SaveProcessed(config, dsk) ==
    IF config.saveprocessed /\ ~MatEmpty(config.processed.area)
    THEN imwrite(SavePath(config, config.prosuffix), config.processed, dsk)
    ELSE dsk

\* the saving of the segmented and the processed image, when asked for
SaveImages(config, dsk) ==
    IF config.savesegmented /\ ~MatEmpty(config.seg.area)
    THEN SaveProcessed(config, imwrite(SavePath(config, config.segsuffix), config.seg, dsk))
    ELSE SaveProcessed(config, dsk)

\* the end of analyzeImage when config holds the features
AnalysisDone(config, dsk, cerr, log) ==
    Analysis(TRUE, config, SaveImages(config, dsk), cerr, log)

\* analyzeImage after the region loop left a
AfterRoiLoop(input, dsk, a) ==
    IF a.thrown
    THEN Analysis(FALSE, a.config, dsk, Append(a.cerr, ErrorLine("Error processing")), a.log)
    ELSE AnalysisDone([a.config EXCEPT !.roifeatures = a.features,
                                       !.input = input,
                                       !.seg = a.segs,
                                       !.processed = a.outputs],
                      dsk, a.cerr, a.log)

\* AnalyzeFull that rescales the cut-points for every image
AnalyzeFull_RescalesRanges(config, dsk, log) ==
    IF config.input.bad
    THEN Analysis(FALSE, config, dsk, <<ErrorLine("Error processing")>>, log)
    ELSE AnalysisDone(feature_extractor([config EXCEPT
                                           !.dranges = [k \in 1..Len(@) |-> 2 * @[k]]]),
                      dsk, <<>>, log)

\* analyzeImage on the whole image: config has input set and features
\* cleared
AnalyzeFull(config, dsk, log) ==
    IF config.input.bad
    THEN Analysis(FALSE, config, dsk, <<ErrorLine("Error processing")>>, log)
    ELSE AnalysisDone(feature_extractor(config), dsk, <<>>, log)

\* analyzeImage after cv::imread returned input
AnalyzeLoaded(config, dsk, rois, input) ==
    IF MatEmpty(input)
    THEN Analysis(FALSE, config, dsk, <<ErrorLine("Could not load image")>>,
                  <<[ev |-> "imread", path |-> config.inputPath, input |-> input]>>)
    ELSE IF Len(rois) > 0
    THEN AfterRoiLoop(input, dsk,
           RoiLoop(input, rois, 1,
                   [config |-> [config EXCEPT !.imagefilename = filename(config.inputPath)],
                    features |-> <<>>,
                    outputs |-> [area |-> input, parts |-> <<>>],
                    segs |-> [area |-> input, parts |-> <<>>],
                    cerr |-> <<>>,
                    log |-> <<[ev |-> "imread", path |-> config.inputPath, input |-> input]>>,
                    thrown |-> FALSE]))
    ELSE AnalyzeFull([config EXCEPT !.imagefilename = filename(config.inputPath),
                                    !.input = input,
                                    !.features = <<>>],
                     dsk,
                     <<[ev |-> "imread", path |-> config.inputPath, input |-> input],
                       [ev |-> "extract", input |-> input]>>)

\* analyzeImage(config) with the regions rois of the ROI manager (none in a
\* build without BUILD_GUI)
analyzeImage(config, dsk, rois) ==
    AnalyzeLoaded(config, dsk, rois, imread(config.inputPath, dsk))

\* ------------------------------------------------------------------------
\* The CSV file
\* ------------------------------------------------------------------------
\* A line of the file is a sequence of cells.  A header cell is a column:
\* its name, the number that follows the name (0 for none) and the unit
\* suffix.  A row starts with the file name and the region name, followed by
\* one cell per feature value.
Col(name, idx, unit) == [name |-> name, idx |-> idx, unit |-> unit]

\* the series loop with k < dranges.size() for k <= dranges.size()
RangeSeries_OneShort(name, unit, n) == [k \in 1..n |-> Col(name, k, unit)]

\* the series loop with the length suffix for every series
RangeSeries_LengthUnit(name, unit, n) ==
    [k \in 1..(n + 1) |-> Col(name, k, IF unit \in {".mm", ".mm2", ".mm3"} THEN ".mm" ELSE ".px")]

\* for (k = 0; k <= dranges.size(); k++) f << "," << name << (k + 1) << unit
RangeSeries(name, unit, n) == [k \in 1..(n + 1) |-> Col(name, k, unit)]

\* writeCsvHeader(config, f): the line it writes to f
writeCsvHeader(config) ==
    LET unitlength == IF config.pixelconv THEN ".mm" ELSE ".px"
        unitarea == IF config.pixelconv THEN ".mm2" ELSE ".px2"
        unitvolume == IF config.pixelconv THEN ".mm3" ELSE ".px3"
        perunitlength == IF config.pixelconv THEN ".per.mm" ELSE ".per.px"
        n == Len(config.dranges)
        series == RangeSeries("Root.Length.Diameter.Range.", unitlength, n)
                    \o RangeSeries("Projected.Area.Diameter.Range.", unitarea, n)
                    \o RangeSeries("Surface.Area.Diameter.Range.", unitarea, n)
                    \o RangeSeries("Volume.Diameter.Range.", unitvolume, n)
    IN IF config.roottype = 0
       THEN << Col("File.Name", 0, ""), Col("Region.of.Interest", 0, ""),
               Col("Median.Number.of.Roots", 0, ""),
               Col("Maximum.Number.of.Roots", 0, ""),
               Col("Number.of.Root.Tips", 0, ""),
               Col("Total.Root.Length", 0, unitlength),
               Col("Depth", 0, unitlength),
               Col("Maximum.Width", 0, unitlength),
               Col("Width-to-Depth.Ratio", 0, ""),
               Col("Network.Area", 0, unitarea),
               Col("Convex.Area", 0, unitarea),
               Col("Solidity", 0, ""),
               Col("Lower.Root.Area", 0, unitarea),
               Col("Average.Diameter", 0, unitlength),
               Col("Median.Diameter", 0, unitlength),
               Col("Maximum.Diameter", 0, unitlength),
               Col("Perimeter", 0, unitlength),
               Col("Volume", 0, unitvolume),
               Col("Surface.Area", 0, unitarea),
               Col("Holes", 0, ""),
               Col("Average.Hole.Size", 0, unitarea),
               Col("Computation.Time.s", 0, ""),
               Col("Average.Root.Orientation.deg", 0, ""),
               Col("Shallow.Angle.Frequency", 0, ""),
               Col("Medium.Angle.Frequency", 0, ""),
               Col("Steep.Angle.Frequency", 0, "") >> \o series
       ELSE << Col("File.Name", 0, ""), Col("Region.of.Interest", 0, ""),
               Col("Number.of.Root.Tips", 0, ""),
               Col("Number.of.Branch.Points", 0, ""),
               Col("Total.Root.Length", 0, unitlength),
               Col("Branching.frequency", 0, perunitlength),
               Col("Network.Area", 0, unitarea),
               Col("Average.Diameter", 0, unitlength),
               Col("Median.Diameter", 0, unitlength),
               Col("Maximum.Diameter", 0, unitlength),
               Col("Perimeter", 0, unitlength),
               Col("Volume", 0, unitvolume),
               Col("Surface.Area", 0, unitarea),
               Col("Computation.Time.s", 0, "") >> \o series

\* ceil(log10(v / Scale)) for a value v > 0 in Scale units
RECURSIVE CeilLog10Up(_, _)
CeilLog10Up(v, k) == IF Pow10(k) * Scale >= v THEN k ELSE CeilLog10Up(v, k + 1)

RECURSIVE CeilLog10Down(_, _)
CeilLog10Down(v, m) ==
    IF v * Pow10(m + 1) <= Scale THEN CeilLog10Down(v, m + 1) ELSE 0 - m

CeilLog10(v) == IF v > Scale THEN CeilLog10Up(v, 0) ELSE CeilLog10Down(v, 0)

Abs(v) == IF v < 0 THEN 0 - v ELSE v

\* the text written for one feature value with the zero test first and a
\* fixed precision for every other value
FeatureCell_FixedPrecision(feature) ==
    IF IsZero(feature) \/ ~(isnan(feature) \/ isinf(feature))
    THEN [text |-> "number", precision |-> 6, num |-> feature.num]
    ELSE [text |-> "NA", precision |-> 0, num |-> 0]

\* the text written for one feature value: the value at a precision, or NA
FeatureCell(feature) ==
    IF ~(isnan(feature) \/ isinf(feature) \/ IsZero(feature))
    THEN [text |-> "number", precision |-> CeilLog10(Abs(feature.num)) + 6,
          num |-> feature.num]
    ELSE IF IsZero(feature)
    THEN [text |-> "number", precision |-> 6, num |-> 0]
    ELSE [text |-> "NA", precision |-> 0, num |-> 0]

\* a cell that holds a text
TextCell(s) == [text |-> "text", str |-> s]

\* the line written for processed image i
ResultRow(imageFiles, allFeatures, roiNames, i) ==
    <<TextCell(filename(imageFiles[i])), TextCell(roiNames[i])>>
      \o [k \in 1..Len(allFeatures[i]) |-> FeatureCell(allFeatures[i][k])]

\* f.open(csvFullPath, std::ios::app) and the writes to f
AppendLines(csvFullPath, newLines, dsk) ==
    IF csvFullPath \in DOMAIN dsk.files
    THEN [dsk EXCEPT !.files[csvFullPath].lines = @ \o newLines]
    ELSE [files |-> dsk.files @@
                      (csvFullPath :> [kind |-> "text", sig |-> 0, lines |-> newLines]),
          order |-> Append(dsk.order, csvFullPath)]

\* writeResultsToCsv that writes the header on every call
writeResultsToCsv_HeaderAlways(config, imageFiles, allFeatures, roiNames, dsk) ==
    AppendLines(Canon(config.outputFile),
                <<writeCsvHeader(config)>>
                  \o [i \in 1..Len(imageFiles)
                        |-> ResultRow(imageFiles, allFeatures, roiNames, i)],
                dsk)

\* writeResultsToCsv(config, imageFiles, allFeatures, roiNames): the disk it
\* leaves.  The file is opened for appending; the header is written when
\* the file did not exist or --noappend was given.
writeResultsToCsv(config, imageFiles, allFeatures, roiNames, dsk) ==
    AppendLines(Canon(config.outputFile),
                (IF ~exists(config.outputFile, dsk) \/ config.noappend
                 THEN <<writeCsvHeader(config)>> ELSE <<>>)
                  \o [i \in 1..Len(imageFiles)
                        |-> ResultRow(imageFiles, allFeatures, roiNames, i)],
                dsk)

\* ------------------------------------------------------------------------
\* main: the state of one run of rv
\* ------------------------------------------------------------------------
VARIABLES
    argv,            \* argv[1..argc-1]
    gui,             \* whether the program was built with BUILD_GUI
    rois,            \* the regions the ROI manager holds
    disk,            \* the files on disk
    disk0,           \* the disk when the run started
    pc,              \* position in main: "start", "parsed", "loop", "exit"
    config,          \* main's feature_config
    cerr,            \* what was written to std::cerr
    exitCode,        \* value returned by main, -1 while it runs
    imageFiles,      \* the files collected
    idx,             \* the loop index i of the batch loop
    allFeatures, processedFiles, roinames,
    log,             \* images read and inputs the feature extractor ran on
    core             \* the pipeline stage under study and its working state

vars == <<argv, gui, rois, disk, disk0, pc, config, cerr, exitCode,
          imageFiles, idx, allFeatures, processedFiles, roinames, log, core>>

\* no pipeline stage is under study: the run of rv is
NoStage == [stage |-> "none"]

\* main up to the call of parseCommandLine
InitRun(args, g, r, dsk) ==
    /\ argv = args
    /\ gui = g
    /\ rois = r
    /\ disk = dsk
    /\ disk0 = dsk
    /\ pc = "start"
    /\ config = DefaultConfig
    /\ cerr = <<>>
    /\ exitCode = -1
    /\ imageFiles = <<>>
    /\ idx = 0
    /\ allFeatures = <<>>
    /\ processedFiles = <<>>
    /\ roinames = <<>>
    /\ log = <<>>
    /\ core = NoStage

\* main takes the value parseCommandLine returned
Parsed(st) ==
    /\ config' = st.config
    /\ cerr' = cerr \o st.cerr

\* feature_config config = parseCommandLine(argc, argv)
ParseCommandLine ==
    /\ pc = "start"
    /\ Parsed(parseCommandLine(argv, disk, gui))
    /\ pc' = "parsed"
    /\ UNCHANGED <<core, argv, gui, rois, disk, disk0, exitCode, imageFiles, idx,
                   allFeatures, processedFiles, roinames, log>>

\* the help, version, license and credits exits of main
ShowInfo ==
    /\ pc = "parsed"
    /\ config.showHelp \/ config.showVersion \/ config.showLicense \/ config.showCredits
    /\ exitCode' = IF config.showHelp
                   THEN (IF ~config.showHelpMain THEN 1 ELSE 0)
                   ELSE 0
    /\ pc' = "exit"
    /\ UNCHANGED <<core, argv, gui, rois, disk, disk0, config, cerr, imageFiles, idx,
                   allFeatures, processedFiles, roinames, log>>

\* the collection of the image files and the set-up of the batch loop
CollectImages ==
    /\ pc = "parsed"
    /\ ~(config.showHelp \/ config.showVersion \/ config.showLicense \/ config.showCredits)
    /\ imageFiles' = collectImageFiles(config.inputPath, config.recursive, disk)
    /\ IF imageFiles' = <<>>
       THEN /\ exitCode' = 1
            /\ pc' = "exit"
            /\ cerr' = Append(cerr, [level |-> "Error", text |-> "No supported image files found"])
            /\ UNCHANGED config
       ELSE /\ config' = [config EXCEPT !.consolemode = TRUE]
            /\ pc' = "loop"
            /\ UNCHANGED <<exitCode, cerr>>
    /\ UNCHANGED <<core, argv, gui, rois, disk, disk0, idx, allFeatures,
                   processedFiles, roinames, log>>

\* the end of an iteration that records the file name of a failed image too
PushResult_NameAlways(file, r) ==
    /\ config' = r.config
    /\ disk' = r.dsk
    /\ cerr' = cerr \o r.cerr
    /\ log' = log \o r.log
    /\ IF r.ok /\ Len(rois) > 0
       THEN /\ allFeatures' = allFeatures \o r.config.roifeatures
            /\ processedFiles' = processedFiles \o [k \in 1..Len(rois) |-> file]
            /\ roinames' = roinames \o [k \in 1..Len(rois) |-> rois[k].name]
       ELSE /\ allFeatures' = IF r.ok THEN Append(allFeatures, r.config.features)
                              ELSE allFeatures
            /\ processedFiles' = Append(processedFiles, file)
            /\ roinames' = IF r.ok THEN Append(roinames, Lit["Full"]) ELSE roinames

\* the end of one iteration of the batch loop: r is what analyzeImage left
\* for file
PushResult(file, r) ==
    /\ config' = r.config
    /\ disk' = r.dsk
    /\ cerr' = cerr \o r.cerr
    /\ log' = log \o r.log
    /\ IF r.ok
       THEN IF Len(rois) > 0
            THEN /\ allFeatures' = allFeatures \o r.config.roifeatures
                 /\ processedFiles' = processedFiles \o [k \in 1..Len(rois) |-> file]
                 /\ roinames' = roinames \o [k \in 1..Len(rois) |-> rois[k].name]
            ELSE /\ allFeatures' = Append(allFeatures, r.config.features)
                 /\ processedFiles' = Append(processedFiles, file)
                 /\ roinames' = Append(roinames, Lit["Full"])
       ELSE UNCHANGED <<allFeatures, processedFiles, roinames>>

\* one iteration of the batch loop that leaves the loop when analyzeImage
\* fails
AnalyzeNext_StopOnFailure ==
    /\ pc = "loop"
    /\ idx < Len(imageFiles)
    /\ PushResult(imageFiles[idx + 1],
                  analyzeImage([config EXCEPT !.inputPath = imageFiles[idx + 1]],
                               disk, rois))
    /\ idx' = IF analyzeImage([config EXCEPT !.inputPath = imageFiles[idx + 1]],
                              disk, rois).ok
              THEN idx + 1 ELSE Len(imageFiles)
    /\ UNCHANGED <<core, argv, gui, rois, disk0, pc, exitCode, imageFiles>>

\* one iteration of the batch loop
AnalyzeNext ==
    /\ pc = "loop"
    /\ idx < Len(imageFiles)
    /\ PushResult(imageFiles[idx + 1],
                  analyzeImage([config EXCEPT !.inputPath = imageFiles[idx + 1]],
                               disk, rois))
    /\ idx' = idx + 1
    /\ UNCHANGED <<core, argv, gui, rois, disk0, pc, exitCode, imageFiles>>

\* the end of main that returns 0 also when no image was processed
WriteResults_AlwaysZero ==
    /\ pc = "loop"
    /\ idx = Len(imageFiles)
    /\ IF processedFiles = <<>>
       THEN /\ exitCode' = 0
            /\ cerr' = Append(cerr, [level |-> "Error", text |-> "No images were successfully processed."])
            /\ UNCHANGED disk
       ELSE /\ disk' = writeResultsToCsv(config, processedFiles, allFeatures, roinames, disk)
            /\ exitCode' = 0
            /\ UNCHANGED cerr
    /\ pc' = "exit"
    /\ UNCHANGED <<core, argv, gui, rois, disk0, config, imageFiles, idx,
                   allFeatures, processedFiles, roinames, log>>

\* the end of main: the results are written when an image was processed
WriteResults ==
    /\ pc = "loop"
    /\ idx = Len(imageFiles)
    /\ IF processedFiles = <<>>
       THEN /\ exitCode' = 1
            /\ cerr' = Append(cerr, [level |-> "Error", text |-> "No images were successfully processed."])
            /\ UNCHANGED disk
       ELSE /\ disk' = writeResultsToCsv(config, processedFiles, allFeatures, roinames, disk)
            /\ exitCode' = 0
            /\ UNCHANGED cerr
    /\ pc' = "exit"
    /\ UNCHANGED <<core, argv, gui, rois, disk0, config, imageFiles, idx,
                   allFeatures, processedFiles, roinames, log>>

Next ==
    \/ ParseCommandLine
    \/ ShowInfo
    \/ CollectImages
    \/ AnalyzeNext
    \/ WriteResults

\* ------------------------------------------------------------------------
\* Command lines and disks the runs start from
\* ------------------------------------------------------------------------
RECURSIVE SeqsUpTo(_, _)
SeqsUpTo(S, n) ==
    IF n <= 0 THEN {<<>>}
    ELSE LET P == SeqsUpTo(S, n - 1)
         IN P \cup {Append(q, x) : q \in P, x \in S}

Letter == <<"a", "b", "c", "e", "f", "g", "h">>

\* the k-th image file of directory /w/d
DirImage(k) == Lit["/w/d"] \o <<"/", Letter[k], ".", "p", "n", "g">>

Kinds == {"good", "unreadable", "throws"}

FileRec(kind, sig, lines) == [kind |-> kind, sig |-> sig, lines |-> lines]

\* the lines an earlier run with the default options left in a CSV file
OldCsv ==
    LET c == [DefaultConfig EXCEPT !.input.sig = 9]
    IN <<writeCsvHeader(c),
         ResultRow(<<Lit["z.png"]>>, <<FeatureVector(c)>>, <<Lit["Full"]>>, 1)>>

\* The disk with image /w/i.png of kind single, the images kinds[1..] in
\* /w/d, the text file /w/n.txt and, when old, a features.csv of an earlier
\* run in /w and in /w/d.
MakeDisk(single, kinds, old) ==
    LET images == [k \in 1..Len(kinds) |-> DirImage(k)]
        csvs == IF old THEN <<Lit["/w/features.csv"], Lit["/w/d/features.csv"]>>
                ELSE <<>>
        names == <<Lit["/w/i.png"], Lit["/w/n.txt"]>> \o images \o csvs
    IN [files |-> [f \in {names[k] : k \in 1..Len(names)} |->
                     IF f = Lit["/w/i.png"] THEN FileRec(single, 1, <<>>)
                     ELSE IF f = Lit["/w/n.txt"] THEN FileRec("text", 0, <<>>)
                     ELSE IF \E k \in 1..Len(kinds) : f = DirImage(k)
                     THEN LET k == CHOOSE j \in 1..Len(kinds) : f = DirImage(j)
                          IN FileRec(kinds[k], k + 1, <<>>)
                     ELSE FileRec("text", 0, OldCsv)],
        order |-> names]

\* every disk with at most MaxImages images in /w/d
AllDisks ==
    {MakeDisk(s, ks, old) : s \in Kinds, ks \in SeqsUpTo(Kinds, MaxImages),
                            old \in BOOLEAN}

\* a few disks: every image good, with and without an earlier CSV file
FewDisks ==
    {MakeDisk("good", <<"good", "good">>, old) : old \in BOOLEAN}

\* input paths: a directory, an image file, a path that does not exist
InputPaths == {Lit["d"], Lit["i.png"], Lit["x"]}

\* the option tokens and values command lines are built from
CoreTokens ==
    {Lit["-h"], Lit["--version"], Lit["-na"], Lit["-o"], Lit["o.csv"],
     Lit["-rt"], Lit["-t"], Lit["0"], Lit["1"], Lit["300"], Lit["abc"],
     Lit["-ch"], Lit["-ho"], Lit["-co"], Lit["--dranges"], Lit["1.0,3.0,6.0"],
     Lit["3.0,1.0"], Lit["--saveproc"], Lit["--segment"], Lit["-kl"],
     Lit["d"], Lit["i.png"]}

\* command lines: at most MaxArgs tokens, then possibly an input path
ArgLists ==
    {opts \o tail : opts \in SeqsUpTo(CoreTokens, MaxArgs),
                    tail \in {<<>>} \cup {<<q>> : q \in InputPaths}}

Init == \E args \in ArgLists, dsk \in FewDisks : InitRun(args, FALSE, <<>>, dsk)

Spec == Init /\ [][Next]_vars

\* the texts that follow --dranges on the command lines of SpecDranges
DrangeTokens ==
    {Lit["1.0,3.0,6.0"], Lit["1.0,2.5,5.0"], Lit["3.0,1.0"], Lit["2.0,2.0"],
     Lit["1.0,0.0"], Lit["1.0,x"], Lit["1.0"], Lit["3.0"], Lit["0.0"],
     Lit["-5"], Lit["-t"]}

DrangeArgLists ==
    {<<Lit["--dranges"]>> \o vals \o tail :
        vals \in SeqsUpTo(DrangeTokens, MaxArgs),
        tail \in {<<>>} \cup {<<q>> : q \in InputPaths}}

InitDranges ==
    \E args \in DrangeArgLists, dsk \in FewDisks : InitRun(args, FALSE, <<>>, dsk)

\* the runs whose command line starts with --dranges
SpecDranges == InitDranges /\ [][Next]_vars

\* a region of interest of the ROI manager: its name and rectangle
Roi(name, x, y, w, h) == [name |-> name, x |-> x, y |-> y, w |-> w, h |-> h]

\* a region inside the image, one that reaches beyond it, an empty one
RoiRects ==
    {Roi(<<"A">>, 0, 0, 2, 2), Roi(<<"B">>, 2, 1, 3, 2), Roi(<<"Z">>, 0, 0, 0, 0)}

MaxRois == 2

RoiSets == SeqsUpTo(RoiRects, MaxRois) \ {<<>>}

\* the command lines of the batch runs: a few options, then a directory or
\* an image file
BatchArgLists ==
    {pre \o <<q>> :
        pre \in {<<>>, <<Lit["-na"]>>, <<Lit["--segment"]>>, <<Lit["-rt"], Lit["0"]>>,
                 <<Lit["-t"], Lit["300"]>>},
        q \in {Lit["d"], Lit["i.png"]}}

\* a batch run: any disk; regions of interest only in a build with the GUI
\* that was given --roipath
InitBatch ==
    \/ \E args \in BatchArgLists, dsk \in AllDisks : InitRun(args, FALSE, <<>>, dsk)
    \/ \E r \in RoiSets, dsk \in AllDisks :
          InitRun(<<Lit["--roipath"], Lit["n.txt"], Lit["d"]>>, TRUE, r, dsk)

SpecBatch == InitBatch /\ [][Next]_vars

\* writeCsvHeader(config, f) on the output file, as writeResultsToCsv calls
\* it on a new file
WriteCsvHeader ==
    /\ pc = "header"
    /\ disk' = AppendLines(Canon(config.outputFile), <<writeCsvHeader(config)>>, disk)
    /\ pc' = "exit"
    /\ exitCode' = 0
    /\ UNCHANGED <<core, argv, gui, rois, disk0, config, cerr, imageFiles, idx,
                   allFeatures, processedFiles, roinames, log>>

NextHeader == WriteCsvHeader

MaxCuts == 3

\* the cut-points the configurations of SpecHeader are built from
CutPoints == {Scale, 2 * Scale, 5 * Scale, 10 * Scale}

\* the configurations writeCsvHeader is applied to: both root types, with
\* and without unit conversion, at most MaxCuts ascending cut-points
HeaderConfigs ==
    {[DefaultConfig EXCEPT !.roottype = rt, !.pixelconv = pconv, !.dranges = d,
                           !.outputFile = Lit["/w/features.csv"]] :
        rt \in {0, 1}, pconv \in BOOLEAN,
        d \in {q \in SeqsUpTo(CutPoints, MaxCuts) :
                  \A k \in 2..Len(q) : q[k] >= q[k - 1]}}

InitHeader ==
    \E c \in HeaderConfigs :
        /\ argv = <<>> /\ gui = FALSE /\ rois = <<>>
        /\ disk = MakeDisk("good", <<>>, FALSE)
        /\ disk0 = MakeDisk("good", <<>>, FALSE)
        /\ pc = "header"
        /\ config = c
        /\ cerr = <<>> /\ exitCode = -1
        /\ imageFiles = <<>> /\ idx = 0
        /\ allFeatures = <<>> /\ processedFiles = <<>> /\ roinames = <<>>
        /\ log = <<>>
        /\ core = NoStage

\* writeCsvHeader applied to every configuration of HeaderConfigs
SpecHeader == InitHeader /\ [][NextHeader]_vars

NextEncode == WriteResults

MaxFeatures == 2

\* feature values the extractor can leave: undefined ones, zero, values
\* below, at and above a power of ten, a negative one
FeatureValues ==
    {[cls |-> "nan", num |-> 0], [cls |-> "inf", num |-> 0],
     Finite(0), Finite(1), Finite(Scale - 1), Finite(Scale), Finite(Scale + 1),
     Finite(10 * Scale), Finite(0 - (2 * Scale + 500)), Finite(123456 * Scale + 789)}

\* main at the end of the batch loop over the image /w/i.png, with the
\* feature vector fv pushed for it
InitEncode ==
    \E fv \in SeqsUpTo(FeatureValues, MaxFeatures) :
        /\ argv = <<Lit["i.png"]>> /\ gui = FALSE /\ rois = <<>>
        /\ disk = MakeDisk("good", <<>>, FALSE)
        /\ disk0 = MakeDisk("good", <<>>, FALSE)
        /\ pc = "loop"
        /\ config = [DefaultConfig EXCEPT !.inputPath = Lit["i.png"],
                                          !.outputPath = Lit["/w"],
                                          !.outputFile = Lit["/w/features.csv"],
                                          !.consolemode = TRUE,
                                          !.features = fv]
        /\ cerr = <<>> /\ exitCode = -1
        /\ imageFiles = <<Lit["i.png"]>> /\ idx = 1
        /\ allFeatures = <<fv>>
        /\ processedFiles = <<Lit["i.png"]>>
        /\ roinames = <<Lit["Full"]>>
        /\ log = <<>>
        /\ core = NoStage

\* writeResultsToCsv applied to every feature vector over FeatureValues
SpecEncode == InitEncode /\ [][NextEncode]_vars

\* the concatenation of the sequences of ss
RECURSIVE Flatten(_)
Flatten(ss) == IF ss = <<>> THEN <<>> ELSE Head(ss) \o Flatten(Tail(ss))

MaxItems == 3

\* the unit conversion options with and without a value, and --dranges
ConvertItems ==
    {<<Lit["--convert"]>>,
     <<Lit["--factordpi"], Lit["0.5"]>>, <<Lit["--factordpi"], Lit["300"]>>,
     <<Lit["--factorpixels"], Lit["0.05"]>>, <<Lit["--factorpixels"], Lit["1.5"]>>,
     <<Lit["--factordpi"]>>, <<Lit["--factorpixels"]>>,
     <<Lit["--dranges"], Lit["1.0,3.0,6.0"]>>}

\* command lines of at most MaxItems unit conversion options, then possibly
\* an image file
ConvertArgLists ==
    {Flatten(items) \o tail :
        items \in SeqsUpTo(ConvertItems, MaxItems),
        tail \in {<<>>, <<Lit["i.png"]>>}}

InitConvert ==
    \E args \in ConvertArgLists :
        InitRun(args, FALSE, <<>>, MakeDisk("good", <<>>, FALSE))

\* the runs with unit conversion options
SpecConvert == InitConvert /\ [][Next]_vars

MaxDependent == 2

\* the options that depend on a feature, with a value, and the options
\* that enable the features
DependentItems ==
    {<<Lit["--prunethreshold"], Lit["2"]>>, <<Lit["--prune"]>>,
     <<Lit["--smooththreshold"], Lit["1.5"]>>, <<Lit["--smooth"]>>,
     <<Lit["--fgsize"], Lit["0.5"]>>, <<Lit["--fgnoise"]>>,
     <<Lit["--bgsize"], Lit["0.5"]>>, <<Lit["--bgnoise"]>>,
     <<Lit["--ssuffix"], Lit["_seg"]>>, <<Lit["--segment"]>>,
     <<Lit["--fsuffix"], Lit["_features"]>>, <<Lit["--feature"]>>}

DependentArgLists ==
    {Flatten(items) \o tail :
        items \in SeqsUpTo(DependentItems, MaxDependent),
        tail \in {<<>>, <<Lit["i.png"]>>}}

InitDependent ==
    \E args \in DependentArgLists :
        InitRun(args, FALSE, <<>>, MakeDisk("good", <<>>, FALSE))

\* the runs with dependent options and the options of their features
SpecDependent == InitDependent /\ [][Next]_vars

\* the 'Complete Example' of the usage examples, on the directory d
CompleteExample ==
    <<Lit["-r"], Lit["-v"], Lit["-rt"], Lit["0"], Lit["-t"], Lit["140"],
      Lit["--smooth"], Lit["--pixelconv"], Lit["--convfactor"], Lit["0.05"],
      Lit["--dranges"], Lit["1.0,2.5,5.0"], Lit["--saveproc"],
      Lit["-o"], Lit["o.csv"], Lit["d"]>>

\* the command lines of the usage examples, with image.jpg as i.png and
\* the directories as d
UsageExamples ==
    {<<Lit["i.png"]>>,
     <<Lit["d"]>>,
     <<Lit["-r"], Lit["-v"], Lit["d"]>>,
     <<Lit["--roipath"], Lit["n.txt"], Lit["i.png"]>>,
     <<Lit["--metafile"], Lit["n.txt"], Lit["i.png"]>>,
     <<Lit["-o"], Lit["o.csv"], Lit["i.png"]>>,
     <<Lit["-op"], Lit["d/"], Lit["i.png"]>>,
     <<Lit["-na"], Lit["i.png"]>>,
     <<Lit["-h"]>>,
     <<Lit["--version"]>>,
     <<Lit["--license"]>>,
     <<Lit["--credits"]>>,
     <<Lit["-rt"], Lit["0"], Lit["i.png"]>>,
     <<Lit["-t"], Lit["180"], Lit["i.png"]>>,
     <<Lit["-i"], Lit["i.png"]>>,
     <<Lit["-kl"], Lit["i.png"]>>,
     <<Lit["--bgnoise"], Lit["i.png"]>>,
     <<Lit["--fgnoise"], Lit["i.png"]>>,
     <<Lit["--bgnoise"], Lit["--bgsize"], Lit["0.5"], Lit["i.png"]>>,
     <<Lit["--fgnoise"], Lit["--fgsize"], Lit["0.5"], Lit["i.png"]>>,
     <<Lit["--smooth"], Lit["i.png"]>>,
     <<Lit["-s"], Lit["--smooththreshold"], Lit["1.5"], Lit["i.png"]>>,
     <<Lit["--prune"], Lit["i.png"]>>,
     <<Lit["--prune"], Lit["--prunethreshold"], Lit["2"], Lit["i.png"]>>,
     <<Lit["--convert"], Lit["i.png"]>>,
     <<Lit["--factordpi"], Lit["0.1"], Lit["i.png"]>>,
     <<Lit["--factorpixels"], Lit["i.png"]>>,
     <<Lit["--dranges"], Lit["1.0,3.0,6.0"], Lit["i.png"]>>,
     <<Lit["--segment"], Lit["i.png"]>>,
     <<Lit["--feature"], Lit["i.png"]>>,
     <<Lit["--ssuffix"], Lit["_seg"], Lit["i.png"]>>,
     <<Lit["--fsuffix"], Lit["_features"], Lit["i.png"]>>,
     CompleteExample}

InitExamples ==
    \E args \in UsageExamples, g \in BOOLEAN, dsk \in FewDisks :
        InitRun(args, g, <<>>, dsk)

\* the runs of the usage examples, in a build with and without the GUI
SpecExamples == InitExamples /\ [][Next]_vars

\* ------------------------------------------------------------------------
\* The pipeline stages, each applied on its own to bounded inputs
\* ------------------------------------------------------------------------
runVars == <<argv, gui, rois, disk, disk0, pc, config, cerr, exitCode,
             imageFiles, idx, allFeatures, processedFiles, roinames, log>>

\* no run of rv is under way: a stage of the core is applied directly
IdleRun ==
    /\ argv = <<>> /\ gui = FALSE /\ rois = <<>>
    /\ disk = MakeDisk("good", <<>>, FALSE)
    /\ disk0 = MakeDisk("good", <<>>, FALSE)
    /\ pc = "stage"
    /\ config = DefaultConfig
    /\ cerr = <<>> /\ exitCode = -1
    /\ imageFiles = <<>> /\ idx = 0
    /\ allFeatures = <<>> /\ processedFiles = <<>> /\ roinames = <<>>
    /\ log = <<>>

\* ------------------------------------------------------------------------
\* DiameterBinner
\* ------------------------------------------------------------------------
\* pi, in units of 1/Scale
Pi == (3142 * Scale) \div 1000

\* the list passes the validation done once before binning: every cut-point
\* is positive and the list is strictly ascending
ValidRanges(dranges) ==
    \A k \in 1..Len(dranges) :
        /\ dranges[k] > 0
        /\ k > 1 => dranges[k] > dranges[k - 1]

\* the diameter of a pixel in the active unit
ToUnit(diameter, mmPerPixel) == (diameter * mmPerPixel) \div Scale

\* LocateBin with a bin closed below and open above
RECURSIVE LocateBin_ClosedBelow(_, _, _)
LocateBin_ClosedBelow(d, dranges, k) ==
    IF k >= Len(dranges) THEN Len(dranges)
    ELSE IF d < dranges[k + 1] THEN k
    ELSE LocateBin_ClosedBelow(d, dranges, k + 1)

\* the bin of diameter d, located by the ascending cut-points from bin k on:
\* the first bin whose upper cut-point is not below d, the open last bin
\* when there is none
RECURSIVE LocateBin(_, _, _)
LocateBin(d, dranges, k) ==
    IF k >= Len(dranges) THEN Len(dranges)
    ELSE IF d <= dranges[k + 1] THEN k
    ELSE LocateBin(d, dranges, k + 1)

EmptyBin == [length |-> 0, projarea |-> 0, surfarea |-> 0, volume |-> 0]

\* what one skeleton pixel of diameter d adds: one pixel of arc length,
\* d x 1 of projected area, pi x d x 1 of surface, pi x (d/2)^2 x 1 of volume
Contribution(d) ==
    [length |-> Scale,
     projarea |-> d,
     surfarea |-> (Pi * d) \div Scale,
     volume |-> (Pi * ((d * d) \div (4 * Scale))) \div Scale]

Accumulate(bin, c) ==
    [length |-> bin.length + c.length,
     projarea |-> bin.projarea + c.projarea,
     surfarea |-> bin.surfarea + c.surfarea,
     volume |-> bin.volume + c.volume]

\* AddToBin that drops what falls above the last cut-point
AddToBin_Lossy(bins, k, d) ==
    IF k > 0 /\ k = Len(bins) - 1 THEN bins
    ELSE [bins EXCEPT ![k + 1] = Accumulate(@, Contribution(d))]

\* the accumulators after the pixel of diameter d went to bin k
AddToBin(bins, k, d) == [bins EXCEPT ![k + 1] = Accumulate(@, Contribution(d))]

\* the cut-point list is validated, once, before binning begins
ValidateRanges ==
    /\ core.stage = "binner" /\ core.step = "validate"
    /\ core' = IF ValidRanges(core.dranges)
               THEN [core EXCEPT !.step = "bin",
                                 !.bins = [k \in 1..(Len(core.dranges) + 1) |-> EmptyBin]]
               ELSE [core EXCEPT !.step = "failed", !.error = "InvalidRangeError"]
    /\ UNCHANGED runVars

\* the next skeleton pixel is converted, located and added to its bin
BinPixel ==
    /\ core.stage = "binner" /\ core.step = "bin"
    /\ core.next <= Len(core.pixels)
    /\ core' = [core EXCEPT
                  !.next = @ + 1,
                  !.chosen = Append(@, LocateBin(ToUnit(core.pixels[core.next], core.mmPerPixel),
                                                 core.dranges, 0)),
                  !.bins = AddToBin(@, LocateBin(ToUnit(core.pixels[core.next], core.mmPerPixel),
                                                 core.dranges, 0),
                                    ToUnit(core.pixels[core.next], core.mmPerPixel))]
    /\ UNCHANGED runVars

NextBinner == ValidateRanges \/ BinPixel

MaxBinCuts == 2
MaxPixels == 3

\* cut-points the lists are built from; 0 makes a list invalid
BinCuts == {0, 2 * Scale, 5 * Scale}

\* diameters of skeleton pixels, in pixels: below, at, between and above
\* the cut-points
Diameters == {Scale, 2 * Scale, 3 * Scale, 5 * Scale, 7 * Scale}

\* the binner before it ran, on every cut-point list over BinCuts, every
\* sequence of at most MaxPixels skeleton pixels and both unit modes
InitBinner ==
    /\ IdleRun
    /\ \E d \in SeqsUpTo(BinCuts, MaxBinCuts), px \in SeqsUpTo(Diameters, MaxPixels),
          m \in {Scale, Scale \div 2} :
          core = [stage |-> "binner", step |-> "validate", dranges |-> d,
                  mmPerPixel |-> m, pixels |-> px, next |-> 1, chosen |-> <<>>,
                  bins |-> <<>>, error |-> "none"]

SpecBinner == InitBinner /\ [][NextBinner]_vars

\* ------------------------------------------------------------------------
\* ComponentFilter
\* ------------------------------------------------------------------------
MaskRows == 3
MaskCols == 3

\* the pixels of a mask; a mask is the set of its foreground pixels
MaskPixels == (1..MaskRows) \X (1..MaskCols)

\* p and q are neighbours in the 8-neighbourhood
Adjacent(p, q) ==
    /\ p # q
    /\ p[1] - q[1] \in {-1, 0, 1}
    /\ p[2] - q[2] \in {-1, 0, 1}

\* the pixels of S next to a pixel of C
Neighbours(C, S) == {q \in S \ C : \E p \in C : Adjacent(p, q)}

\* the 8-connected component of S that holds the pixels C
RECURSIVE Grow(_, _, _)
Grow(C, S, N) == IF N = {} THEN C ELSE Grow(C \cup N, S, Neighbours(C \cup N, S))

\* the position of pixel p in the scan of the mask, row by row
Rank(p) == (p[1] - 1) * MaskCols + p[2]

\* the pixel of S the scan meets first
FirstPixel(S) == CHOOSE p \in S : \A q \in S : Rank(p) <= Rank(q)

\* the 8-connected components of S, in the order the scan finds them
RECURSIVE Label(_, _)
Label(S, found) ==
    IF S = {} THEN found
    ELSE Label(S \ Grow({FirstPixel(S)}, S, Neighbours({FirstPixel(S)}, S)),
               Append(found, Grow({FirstPixel(S)}, S, Neighbours({FirstPixel(S)}, S))))

\* the component has more pixels than fraction x total pixel count
ExceedsSize(C, fraction) == Cardinality(C) * Scale > fraction * Cardinality(MaskPixels)

\* the pixels of the components of comps[k..] that exceed the size
RECURSIVE Oversized(_, _, _)
Oversized(comps, fraction, k) ==
    IF k > Len(comps) THEN {}
    ELSE (IF ExceedsSize(comps[k], fraction) THEN comps[k] ELSE {})
           \cup Oversized(comps, fraction, k + 1)

\* the mask without the foreground components and the background
\* components the enabled noise filters drop
DropNoise(mask, flags) ==
    (mask \ (IF flags.filterForegroundNoise
             THEN Oversized(Label(mask, <<>>), flags.maxForegroundSizeFraction, 1)
             ELSE {}))
      \cup (IF flags.filterBackgroundNoise
            THEN Oversized(Label(MaskPixels \ mask, <<>>),
                           flags.maxBackgroundSizeFraction, 1)
            ELSE {})

\* LargestFrom that lets a later component of equal size win
RECURSIVE LargestFrom_LastFound(_, _, _)
LargestFrom_LastFound(comps, k, best) ==
    IF k > Len(comps) THEN best
    ELSE LargestFrom_LastFound(comps, k + 1,
                     IF Cardinality(comps[k]) >= Cardinality(comps[best]) THEN k ELSE best)

\* the index of the largest component among comps[k..] and comps[best]; a
\* later component replaces the best one only when it is larger
RECURSIVE LargestFrom(_, _, _)
LargestFrom(comps, k, best) ==
    IF k > Len(comps) THEN best
    ELSE LargestFrom(comps, k + 1,
                     IF Cardinality(comps[k]) > Cardinality(comps[best]) THEN k ELSE best)

\* the single largest foreground component, none for an empty foreground
KeepLargest(comps) == IF comps = <<>> THEN {} ELSE comps[LargestFrom(comps, 2, 1)]

\* the mask ComponentFilter leaves
ComponentFilter(mask, flags) ==
    IF flags.keepLargestOnly
    THEN KeepLargest(Label(DropNoise(mask, flags), <<>>))
    ELSE DropNoise(mask, flags)

\* ComponentFilter replaces the mask
ApplyComponentFilter ==
    /\ core.stage = "filter" /\ core.step = "raw"
    /\ core' = [core EXCEPT !.step = "filtered",
                            !.mask = ComponentFilter(core.mask, core.flags)]
    /\ UNCHANGED runVars

NextFilter == ApplyComponentFilter

\* the size fractions given to the noise filters: the default 1.0, a third
SizeFractions == {Scale, Scale \div 3}

\* the flags of ComponentFilter; a filter that is off keeps the default size
FilterFlags ==
    {f \in [keepLargestOnly : BOOLEAN,
            filterForegroundNoise : BOOLEAN, maxForegroundSizeFraction : SizeFractions,
            filterBackgroundNoise : BOOLEAN, maxBackgroundSizeFraction : SizeFractions] :
        /\ ~f.filterForegroundNoise => f.maxForegroundSizeFraction = Scale
        /\ ~f.filterBackgroundNoise => f.maxBackgroundSizeFraction = Scale}

\* ComponentFilter before it ran, on every mask and every flag setting
InitFilter ==
    /\ IdleRun
    /\ \E mask \in SUBSET MaskPixels, flags \in FilterFlags :
          core = [stage |-> "filter", step |-> "raw", raw |-> mask, mask |-> mask,
                  flags |-> flags]

SpecFilter == InitFilter /\ [][NextFilter]_vars

\* ------------------------------------------------------------------------
\* Pruner
\* ------------------------------------------------------------------------
\* A TopologyGraph is an arena of segments: graph[i] holds the arc length of
\* segment i, the index of its parent segment (0 when it has none) and
\* whether it is still part of the graph.
Segment(length, parent) == [length |-> length, parent |-> parent, alive |-> TRUE]

\* the segments attached to the far end of segment p
Children(graph, p) ==
    {i \in 1..Len(graph) : graph[i].alive /\ graph[i].parent = p}

\* segment i ends in a tip
EndsInTip(graph, i) == graph[i].alive /\ Children(graph, i) = {}

\* the leaf segments a pass removes: attached to a parent, ending in a tip,
\* with an arc length below the threshold
ShortLeaves(graph, threshold) ==
    {i \in 1..Len(graph) :
        /\ EndsInTip(graph, i)
        /\ graph[i].parent # 0
        /\ graph[i].length < threshold}

\* the graph without the segments of R
RemoveSegments(graph, R) ==
    [i \in 1..Len(graph) |->
        IF i \in R THEN [graph[i] EXCEPT !.alive = FALSE] ELSE graph[i]]

\* the segments left with one child: their far end is no branch point any
\* more
Unbranched(graph) ==
    {p \in 1..Len(graph) : graph[p].alive /\ Cardinality(Children(graph, p)) = 1}

\* segment p and its only child c become one segment between two nodes
JoinChild(graph, p, c) ==
    [i \in 1..Len(graph) |->
        IF i = p THEN [graph[p] EXCEPT !.length = @ + graph[c].length]
        ELSE IF i = c THEN [graph[c] EXCEPT !.alive = FALSE]
        ELSE IF graph[i].parent = c THEN [graph[i] EXCEPT !.parent = p]
        ELSE graph[i]]

FirstOf(S) == CHOOSE p \in S : \A q \in S : p <= q

\* one pass of the pruner: every short leaf segment is removed
PrunePass ==
    /\ core.stage = "pruner" /\ core.step = "pruning"
    /\ ShortLeaves(core.graph, core.threshold) # {}
    /\ core' = [core EXCEPT
                  !.step = "rejoin",
                  !.graph = RemoveSegments(@, ShortLeaves(core.graph, core.threshold)),
                  !.removed = @ + Cardinality(ShortLeaves(core.graph, core.threshold)),
                  !.passes = @ + 1]
    /\ UNCHANGED runVars

\* Rejoin that leaves the nodes with one child in the graph
Rejoin_Never ==
    /\ core.stage = "pruner" /\ core.step = "rejoin"
    /\ core' = [core EXCEPT !.step = "pruning"]
    /\ UNCHANGED runVars

\* the end of a pass: the segments of the graph run between two nodes again,
\* tips and branch points; a node left with one child is joined with it,
\* one node at a time, before the next pass looks at the graph
Rejoin ==
    /\ core.stage = "pruner" /\ core.step = "rejoin"
    /\ core' = IF Unbranched(core.graph) = {}
               THEN [core EXCEPT !.step = "pruning"]
               ELSE [core EXCEPT
                       !.graph = JoinChild(@, FirstOf(Unbranched(core.graph)),
                                           FirstOf(Children(core.graph,
                                                            FirstOf(Unbranched(core.graph)))))]
    /\ UNCHANGED runVars

\* PruneStop of a pruner that may stop after any pass
PruneStop_AfterAnyPass ==
    /\ core.stage = "pruner" /\ core.step = "pruning"
    /\ core.passes >= 1 \/ ShortLeaves(core.graph, core.threshold) = {}
    /\ core' = [core EXCEPT !.step = "done"]
    /\ UNCHANGED runVars

\* pruning ends when no segment qualifies
PruneStop ==
    /\ core.stage = "pruner" /\ core.step = "pruning"
    /\ ShortLeaves(core.graph, core.threshold) = {}
    /\ core' = [core EXCEPT !.step = "done"]
    /\ UNCHANGED runVars

\* the pruner is run again on the graph it left, with the same threshold
PruneAgain ==
    /\ core.stage = "pruner" /\ core.step = "done" /\ core.run = 1
    /\ core' = [core EXCEPT !.run = 2, !.step = "pruning", !.pruned = core.graph,
                            !.removed = 0, !.passes = 0]
    /\ UNCHANGED runVars


MaxSegments == 5

\* arc lengths of segments and pruning thresholds, in pixels
SegLengths == {1, 3}
Thresholds == {1, 2, 5}

\* the arenas of n segments: a segment is attached to an earlier one or to
\* none
RECURSIVE Arenas(_)
Arenas(n) ==
    IF n = 0 THEN {<<>>}
    ELSE {Append(g, Segment(l, p)) :
            g \in Arenas(n - 1), l \in SegLengths, p \in 0..(n - 1)}

\* the graphs of at most MaxSegments segments the TopologyBuilder can leave:
\* a segment that does not end in a tip ends in a branch point, with two
\* children or more
Graphs ==
    {g \in UNION {Arenas(n) : n \in 0..MaxSegments} :
        \A i \in 1..Len(g) : Cardinality(Children(g, i)) # 1}

\* the pruner is handed a graph and a threshold
StartPruner ==
    /\ core.stage = "pruner" /\ core.step = "idle"
    /\ \E g \in Graphs, t \in Thresholds :
          core' = [core EXCEPT !.step = "pruning", !.input = g, !.graph = g,
                               !.threshold = t, !.pruned = g]
    /\ UNCHANGED runVars

NextPruner == StartPruner \/ PrunePass \/ Rejoin \/ PruneStop \/ PruneAgain

InitPruner ==
    /\ IdleRun
    /\ core = [stage |-> "pruner", step |-> "idle", run |-> 1, input |-> <<>>,
               graph |-> <<>>, threshold |-> 0, pruned |-> <<>>, removed |-> 0,
               passes |-> 0]

SpecPruner == InitPruner /\ [][NextPruner]_vars

\* the pruner's loop goes on while it can
SpecPrunerFair ==
    SpecPruner /\ WF_vars(PrunePass) /\ WF_vars(Rejoin) /\ WF_vars(PruneStop)

\* ------------------------------------------------------------------------
\* Vocabulary of the properties
\* ------------------------------------------------------------------------
\* the numbers a comma-separated text lists, in order
RECURSIVE ListValues(_, _)
ListValues(pieces, k) ==
    IF k > Len(pieces) THEN <<>>
    ELSE IF trim_ws(pieces[k]) = <<>> THEN ListValues(pieces, k + 1)
    ELSE <<stod(trim_ws(pieces[k]))>> \o ListValues(pieces, k + 1)

ValuesOf(tok) == ListValues(GetlinePieces(tok, 1), 1)

\* a text that lists one or more numbers and nothing else
IsNumberList(tok) ==
    /\ \A k \in 1..Len(GetlinePieces(tok, 1)) :
          trim_ws(GetlinePieces(tok, 1)[k]) = <<>>
            \/ is_positive_number_like(trim_ws(GetlinePieces(tok, 1)[k]))
    /\ ValuesOf(tok) # <<>>

AllPositive(v) == \A k \in 1..Len(v) : v[k] > 0

Ascending(v) == \A k \in 2..Len(v) : v[k] >= v[k - 1]

StrictlyAscending(v) == \A k \in 2..Len(v) : v[k] > v[k - 1]

\* the command line is --dranges, one list of numbers, then tokens that are
\* no numbers and no further --dranges
DrangesThenList ==
    /\ Len(argv) >= 2
    /\ argv[1] = Lit["--dranges"]
    /\ IsNumberList(argv[2])
    /\ \A k \in 3..Len(argv) : ~IsNumberList(argv[k]) /\ argv[k] # Lit["--dranges"]

HasError(lines) == \E k \in 1..Len(lines) : lines[k].level = "Error"

\* the messages of parseCommandLine about an invalid parameter
InvalidParameterTexts ==
    {"--threshold must be between 0 and 255.",
     "--roottype must be 0 (whole) or 1 (broken).",
     "--threshold requires a value.", "--roottype requires a value (0 or 1).",
     "--output requires a filename.", "--output_path requires a path.",
     "--metafile requires a filename.", "--roipath requires a path.",
     "--bgsize requires a value.", "--fgsize requires a value.",
     "--smooththreshold requires a value.", "--factordpi requires a value.",
     "--factorpixels requires a value.", "--prunethreshold requires a value.",
     "--ssuffix requires a value.", "--fsuffix requires a value.",
     "--medialaxiswidth requires a value.", "--contourwidth requires a value.",
     "Unknown option", "Multiple input paths specified.",
     "Invalid value in --dranges (must be positive number)",
     "All --dranges values must be positive (> 0).",
     "Values for --dranges must be ascending.",
     "Diameter ranges (--dranges) must be in ascending order.",
     "--dranges must contain positive values.", "--dranges must be ascending."}

InvalidParameterReported ==
    \E k \in 1..Len(cerr) :
        cerr[k].level = "Error" /\ cerr[k].text \in InvalidParameterTexts

\* the lines of the output file of the run, none when it does not exist
OutputLines(dsk) ==
    IF Canon(config.outputFile) \in DOMAIN dsk.files
    THEN dsk.files[Canon(config.outputFile)].lines
    ELSE <<>>

\* ------------------------------------------------------------------------
\* Properties
\* ------------------------------------------------------------------------
\* C1: when --dranges is followed by a comma-separated list of positive,
\* ascending numbers, the configuration parseCommandLine returns has dranges
\* equal to that list, same order and length.
C1_DrangesStored ==
    (pc # "start" /\ DrangesThenList
       /\ AllPositive(ValuesOf(argv[2])) /\ Ascending(ValuesOf(argv[2])))
      => config.dranges = ValuesOf(argv[2])

\* C2: a --dranges list that is not ascending or holds a non-positive value
\* makes parseCommandLine report an error, and no image is loaded or
\* analyzed in that run.
C2_InvalidDrangesRejected ==
    (pc # "start" /\ DrangesThenList
       /\ ~(AllPositive(ValuesOf(argv[2])) /\ Ascending(ValuesOf(argv[2]))))
      => (config.showHelp /\ HasError(cerr) /\ log = <<>>)

C4_InvalidParameterStopsRun ==
    InvalidParameterReported
      => /\ config.showHelp
         /\ log = <<>> /\ imageFiles = <<>> /\ processedFiles = <<>>
         /\ disk = disk0
         /\ pc \in {"parsed", "exit"}
         /\ (pc = "exit" => exitCode \in {0, 1})

C4_Witness ==
    /\ pc = "exit" /\ exitCode = 1
    /\ \E k \in 1..Len(cerr) :
          cerr[k] = [level |-> "Error", text |-> "--threshold must be between 0 and 255."]
    /\ exists(config.inputPath, disk0)
    /\ log = <<>> /\ disk = disk0

\* C5: when the command line parses without error and the root type is 1
\* (broken roots), showConvexHull, showHoles and showContours are all
\* false in the configuration parseCommandLine returns.
C5_BrokenRootFlagsOff ==
    (pc = "parsed" /\ ~HasError(cerr) /\ config.roottype = 1)
      => (~config.showConvexHull /\ ~config.showHoles /\ ~config.showContours)

\* the rows writeResultsToCsv writes for the images the run processed
RowsOfRun ==
    [i \in 1..Len(processedFiles)
       |-> ResultRow(processedFiles, allFeatures, roinames, i)]

\* C6: after a successful run with --noappend on an output file that
\* existed before, the file holds one header line followed by the rows of
\* this run and nothing else.
C6_NoAppendOverwrites ==
    (pc = "exit" /\ exitCode = 0 /\ config.noappend
       /\ exists(config.outputFile, disk0))
      => OutputLines(disk) = <<writeCsvHeader(config)>> \o RowsOfRun

\* whether the image file f of the starting disk loads and is analyzed
\* without an exception
Succeeds(f) ==
    ~MatEmpty(imread(f, disk0)) /\ ~imread(f, disk0).bad

\* the files cv::imread was called on, in order
RECURSIVE ImagesRead(_)
ImagesRead(events) ==
    IF events = <<>> THEN <<>>
    ELSE IF Head(events).ev = "imread"
    THEN <<Head(events).path>> \o ImagesRead(Tail(events))
    ELSE ImagesRead(Tail(events))

\* the lines the run added to the output file
LinesAdded ==
    SubSeq(OutputLines(disk), Len(OutputLines(disk0)) + 1, Len(OutputLines(disk)))

\* C7: in a batch, an image that fails to load or whose analysis throws
\* does not stop the run: when the run ends every collected image has been
\* read, in order, and every image that succeeds has a row in the output
\* file.
C7_FailureDoesNotStopBatch ==
    /\ pc = "loop" => ImagesRead(log) = SubSeq(imageFiles, 1, idx)
    /\ (pc = "exit" /\ imageFiles # <<>>)
         => /\ ImagesRead(log) = imageFiles
            /\ \A k \in 1..Len(imageFiles) :
                  Succeeds(imageFiles[k])
                    => /\ exitCode = 0
                       /\ \E j \in 1..Len(LinesAdded) :
                             LinesAdded[j][1] = TextCell(filename(imageFiles[k]))

C7_Witness ==
    /\ pc = "exit" /\ exitCode = 0
    /\ Len(imageFiles) = 2
    /\ ~Succeeds(imageFiles[1]) /\ Succeeds(imageFiles[2])
    /\ \E j \in 1..Len(LinesAdded) :
          LinesAdded[j][1] = TextCell(filename(imageFiles[2]))

\* the collected images that succeed, among the first n
RECURSIVE Succeeded(_, _)
Succeeded(files, n) ==
    IF n = 0 THEN <<>>
    ELSE IF Succeeds(files[n])
    THEN Append(Succeeded(files, n - 1), files[n])
    ELSE Succeeded(files, n - 1)

\* the row of image f analyzed as a whole
FullRow(f) ==
    ResultRow(<<f>>,
              <<FeatureVector([config EXCEPT !.input = imread(f, disk0)])>>,
              <<Lit["Full"]>>, 1)

\* C8: the lists of file names, feature vectors and region names have equal
\* length at every point of the run; and when no region of interest is
\* active the lists hold one entry per image that succeeded so far, in
\* processing order, each with the region name Full and the features of
\* that very image, and the rows the run writes are exactly those entries:
\* file name, Full, then the values of that image.
C8_OneRowPerImage ==
    /\ Len(processedFiles) = Len(allFeatures)
    /\ Len(allFeatures) = Len(roinames)
    /\ (rois = <<>> /\ pc \in {"loop", "exit"})
         => /\ processedFiles = Succeeded(imageFiles, idx)
            /\ \A k \in 1..Len(processedFiles) :
                  /\ roinames[k] = Lit["Full"]
                  /\ ResultRow(processedFiles, allFeatures, roinames, k)
                       = FullRow(processedFiles[k])
    /\ (rois = <<>> /\ pc = "exit" /\ exitCode = 0 /\ imageFiles # <<>>)
         => /\ Len(LinesAdded) \in {Len(processedFiles), Len(processedFiles) + 1}
            /\ \A k \in 1..Len(processedFiles) :
                  LinesAdded[Len(LinesAdded) - Len(processedFiles) + k]
                    = FullRow(processedFiles[k])

C8_Witness ==
    /\ rois = <<>> /\ pc = "exit" /\ exitCode = 0
    /\ Len(imageFiles) = 2 /\ Len(processedFiles) = 2
    /\ Len(LinesAdded) = 3
    /\ LinesAdded[2][1] = TextCell(filename(imageFiles[1]))
    /\ LinesAdded[3][2] = TextCell(Lit["Full"])

\* the header line of the output file
HeaderLine == OutputLines(disk)[1]

\* the names of the four series of per-range columns, in order
SeriesNames ==
    <<"Root.Length.Diameter.Range.", "Projected.Area.Diameter.Range.",
      "Surface.Area.Diameter.Range.", "Volume.Diameter.Range.">>

\* C9: the header written for a configuration with N cut-points starts with
\* File.Name and Region.of.Interest, goes on with the unnumbered fixed
\* fields of the root type (24 for whole root, 12 for broken roots) and
\* ends with the series of root length, projected area, surface area and
\* volume, in that order, each of N+1 columns numbered 1..N+1.
C9_HeaderLayout ==
    pc = "exit" =>
      LET N == Len(config.dranges)
          F == IF config.roottype = 0 THEN 24 ELSE 12
      IN /\ Len(HeaderLine) = 2 + F + 4 * (N + 1)
         /\ HeaderLine[1] = [name |-> "File.Name", idx |-> 0, unit |-> ""]
         /\ HeaderLine[2] = [name |-> "Region.of.Interest", idx |-> 0, unit |-> ""]
         /\ \A k \in 3..(2 + F) :
               /\ HeaderLine[k].idx = 0
               /\ \A j \in 1..4 : HeaderLine[k].name # SeriesNames[j]
         /\ \A j \in 1..4 : \A k \in 1..(N + 1) :
               /\ HeaderLine[2 + F + (j - 1) * (N + 1) + k].name = SeriesNames[j]
               /\ HeaderLine[2 + F + (j - 1) * (N + 1) + k].idx = k

C9_Witness ==
    /\ pc = "exit"
    /\ Len(config.dranges) = 3 /\ config.roottype = 0
    /\ Len(HeaderLine) = 42
    /\ HeaderLine[42].name = "Volume.Diameter.Range." /\ HeaderLine[42].idx = 4

\* the columns that hold a length, an area, a volume, a count per length
LengthColumns ==
    {"Total.Root.Length", "Depth", "Maximum.Width", "Average.Diameter",
     "Median.Diameter", "Maximum.Diameter", "Perimeter",
     "Root.Length.Diameter.Range."}

AreaColumns ==
    {"Network.Area", "Convex.Area", "Lower.Root.Area", "Surface.Area",
     "Average.Hole.Size", "Projected.Area.Diameter.Range.",
     "Surface.Area.Diameter.Range."}

VolumeColumns == {"Volume", "Volume.Diameter.Range."}

PerLengthColumns == {"Branching.frequency"}

\* the suffix a column of the given name carries
UnitOf(name, converted) ==
    IF name \in LengthColumns THEN (IF converted THEN ".mm" ELSE ".px")
    ELSE IF name \in AreaColumns THEN (IF converted THEN ".mm2" ELSE ".px2")
    ELSE IF name \in VolumeColumns THEN (IF converted THEN ".mm3" ELSE ".px3")
    ELSE IF name \in PerLengthColumns
    THEN (IF converted THEN ".per.mm" ELSE ".per.px")
    ELSE ""

\* C10: every column of the header carries the suffix of its own dimension
\* (length, area, volume, per length) in pixels when unit conversion is
\* inactive and in millimetres when it is active, so a header never holds
\* suffixes of both families; a column without a dimension has no suffix.
C10_HeaderUnits ==
    pc = "exit" =>
      /\ \A k \in 1..Len(HeaderLine) :
            HeaderLine[k].unit = UnitOf(HeaderLine[k].name, config.pixelconv)
      /\ \A k \in 1..Len(HeaderLine) :
            HeaderLine[k].unit \in
              (IF config.pixelconv THEN {"", ".mm", ".mm2", ".mm3", ".per.mm"}
               ELSE {"", ".px", ".px2", ".px3", ".per.px"})

C10_Witness ==
    /\ pc = "exit" /\ config.pixelconv /\ config.roottype = 1
    /\ Len(config.dranges) = 2
    /\ \E k \in 1..Len(HeaderLine) : HeaderLine[k].unit = ".per.mm"
    /\ \E k \in 1..Len(HeaderLine) :
          HeaderLine[k] = [name |-> "Volume.Diameter.Range.", idx |-> 3, unit |-> ".mm3"]

\* whether ceil(log10(a / Scale)) = p for a value a > 0 in Scale units:
\* 10^(p-1) < a / Scale <= 10^p
InDecade(a, p) ==
    /\ IF p >= 0 THEN a <= Pow10(p) * Scale ELSE a * Pow10(0 - p) <= Scale
    /\ IF p >= 1 THEN a > Pow10(p - 1) * Scale ELSE a * Pow10(1 - p) > Scale

\* the row written for the one image of the run
WrittenRow == LinesAdded[Len(LinesAdded)]

\* C11: each feature value is written in exactly one of three ways: the
\* token NA when it is NaN or infinite; a number with precision 6 when it
\* is exactly zero; otherwise a number with precision ceil(log10(|value|)) + 6.
C11_ValueEncoding ==
    (pc = "exit" /\ exitCode = 0 /\ Len(allFeatures) = 1) =>
      /\ Len(WrittenRow) = 2 + Len(allFeatures[1])
      /\ \A k \in 1..Len(allFeatures[1]) :
            LET v == allFeatures[1][k]
                cell == WrittenRow[2 + k]
            IN IF v.cls \in {"nan", "inf"}
               THEN cell.text = "NA"
               ELSE IF v.num = 0
               THEN cell.text = "number" /\ cell.precision = 6 /\ cell.num = 0
               ELSE /\ cell.text = "number" /\ cell.num = v.num
                    /\ InDecade(IF v.num < 0 THEN 0 - v.num ELSE v.num,
                                cell.precision - 6)

C11_Witness ==
    /\ pc = "exit" /\ exitCode = 0
    /\ allFeatures = <<<<[cls |-> "nan", num |-> 0], Finite(0 - (2 * Scale + 500))>>>>
    /\ WrittenRow[3].text = "NA"
    /\ WrittenRow[4] = [text |-> "number", precision |-> 7, num |-> 0 - (2 * Scale + 500)]

\* the options that take the next token as their value
ValueOptions ==
    {Lit[o] : o \in {"-op", "--output_path", "-o", "--output", "--metafile",
                     "-rt", "--roottype", "-t", "--threshold", "--bgsize",
                     "--fgsize", "-st", "--smooththreshold", "--factordpi",
                     "--factorpixels", "-pt", "--prunethreshold", "--ssuffix",
                     "--fsuffix", "-mw", "--medialaxiswidth", "-cw",
                     "--contourwidth"}}

\* What a command line gives, read left to right: the options present (an
\* option with a value takes the next token), the value texts of
\* --factordpi and --factorpixels, the cut-points of --dranges.
RECURSIVE Given(_, _, _)
Given(args, i, acc) ==
    IF i > Len(args) THEN acc
    ELSE IF args[i] \in ValueOptions /\ i < Len(args)
    THEN Given(args, i + 2,
               [acc EXCEPT !.options = @ \cup {args[i]},
                           !.dpiText = IF args[i] = Lit["--factordpi"]
                                       THEN args[i + 1] ELSE @,
                           !.pixelsText = IF args[i] = Lit["--factorpixels"]
                                          THEN args[i + 1] ELSE @])
    ELSE IF args[i] = Lit["--dranges"] /\ i < Len(args) /\ IsNumberList(args[i + 1])
    THEN Given(args, i + 2, [acc EXCEPT !.options = @ \cup {args[i]},
                                        !.cuts = ValuesOf(args[i + 1])])
    ELSE Given(args, i + 1, [acc EXCEPT !.options = @ \cup {args[i]}])

\* what argv gives; without --dranges the cut-points are the default 2, 5
GivenArgs ==
    Given(argv, 1, [options |-> {}, dpiText |-> <<>>, pixelsText |-> <<>>,
                    cuts |-> <<2 * Scale, 5 * Scale>>])

\* C12: when the command line gives --convert and parses, unit conversion
\* is on, in pixels-per-mm mode with the value of --factorpixels when that
\* option is given (whatever --factordpi says), otherwise in DPI mode with
\* the value of --factordpi when given, otherwise in DPI mode with factor 1.
C12_ConversionMode ==
    (pc # "start" /\ ~config.showHelp /\ Lit["--convert"] \in GivenArgs.options)
      => /\ config.pixelconv
         /\ IF Lit["--factorpixels"] \in GivenArgs.options
            THEN /\ config.pixelspermm = 1
                 /\ config.conversion = atof(GivenArgs.pixelsText)
            ELSE IF Lit["--factordpi"] \in GivenArgs.options
            THEN /\ config.pixelspermm = 0
                 /\ config.conversion = atof(GivenArgs.dpiText)
            ELSE /\ config.pixelspermm = 0
                 /\ config.conversion = Scale

C12_Witness ==
    /\ pc = "exit" /\ exitCode = 0
    /\ argv = <<Lit["--factordpi"], Lit["300"], Lit["--convert"],
                Lit["--factorpixels"], Lit["0.05"], Lit["i.png"]>>
    /\ config.pixelconv /\ config.pixelspermm = 1 /\ config.conversion = 50

\* C13: when the command line does not give --convert, unit conversion is
\* off with factor 1 and DPI mode whatever --factordpi and --factorpixels
\* say, a factor followed by an image file gives no error, and the
\* cut-points are the ones --dranges supplied.
C13_NoConvertFrame ==
    (pc # "start" /\ Lit["--convert"] \notin GivenArgs.options)
      => /\ ~config.pixelconv
         /\ config.conversion = Scale
         /\ config.pixelspermm = 0
         /\ (Lit["i.png"] \in GivenArgs.options
               /\ GivenArgs.options \subseteq
                    {Lit["--factordpi"], Lit["--factorpixels"], Lit["--dranges"], Lit["i.png"]}
               => ~config.showHelp)
         /\ (~config.showHelp => config.dranges = GivenArgs.cuts)

\* the dependent options: their spellings, the spellings of the option of
\* their feature, the field of the configuration that enables the feature
DependentOptions ==
    {[dep |-> {Lit["-pt"], Lit["--prunethreshold"]}, parent |-> {Lit["--prune"]},
      field |-> "enableRootPruning"],
     [dep |-> {Lit["-st"], Lit["--smooththreshold"]},
      parent |-> {Lit["-s"], Lit["--smooth"]}, field |-> "enablesmooththresh"],
     [dep |-> {Lit["--fgsize"]}, parent |-> {Lit["--fgnoise"]}, field |-> "filterfgnoise"],
     [dep |-> {Lit["--bgsize"]}, parent |-> {Lit["--bgnoise"]}, field |-> "filterbknoise"],
     [dep |-> {Lit["--ssuffix"]}, parent |-> {Lit["--segment"]}, field |-> "savesegmented"],
     [dep |-> {Lit["--fsuffix"]}, parent |-> {Lit["--feature"]}, field |-> "saveprocessed"]}

\* the dependent options argv gives without the option of their feature
Orphans ==
    {d \in DependentOptions :
        d.dep \cap GivenArgs.options # {} /\ d.parent \cap GivenArgs.options = {}}

\* C14: a dependent option given without the option of its feature is only
\* warned about: a command line of such options, options of other features
\* and an image file parses without an error, the warning is written, the
\* feature stays disabled and the run ends with exit code 0.
C14_DependentOptionWarned ==
    (pc # "start" /\ Orphans # {} /\ Lit["i.png"] \in GivenArgs.options)
      => /\ ~config.showHelp
         /\ ~HasError(cerr)
         /\ \A d \in Orphans : ~config[d.field]
         /\ Cardinality({k \in 1..Len(cerr) : cerr[k].level = "Warning"})
              >= Cardinality(Orphans)
         /\ pc \in {"parsed", "loop", "exit"}
         /\ (pc = "exit" => exitCode = 0)

C14_Witness ==
    /\ pc = "exit" /\ exitCode = 0
    /\ argv = <<Lit["--prunethreshold"], Lit["2"], Lit["--smooth"], Lit["i.png"]>>
    /\ cerr = <<[level |-> "Warning",
                 text |-> "--prunethreshold is set but --prune is not enabled. Ignoring --prunethreshold."]>>
    /\ ~config.enableRootPruning /\ config.rootPruningThreshold = 2
    /\ log # <<>>

\* the usage examples that name an image or a directory
ExamplesWithInput ==
    {e \in UsageExamples : e[Len(e)] \in {Lit["i.png"], Lit["d"]}}

\* C15: every usage example that names an input parses without an error
\* with its last argument as the input path; rv --factorpixels image.jpg
\* selects pixels-per-mm mode, and the 'Complete Example' gives whole-root
\* mode, threshold 140, smoothing, conversion with factor 0.05, three
\* cut-points and the saving of the processed image.
C15_UsageExamplesAccepted ==
    (pc = "parsed" /\ argv \in ExamplesWithInput)
      => /\ ~config.showHelp /\ ~HasError(cerr)
         /\ config.inputPath = argv[Len(argv)]
         /\ (argv = <<Lit["--factorpixels"], Lit["i.png"]>>
               => config.pixelspermm = 1)
         /\ (argv = CompleteExample
               => /\ config.roottype = 0 /\ config.threshold = 140
                  /\ config.enablesmooththresh
                  /\ config.pixelconv /\ config.conversion = 50
                  /\ Len(config.dranges) = 3
                  /\ config.saveprocessed)

\* diameter d lies in bin k of the list: above the cut-point below the bin
\* (above 0 for bin 0) and not above the cut-point that closes it (the last
\* bin is open)
InBin(d, dranges, k) ==
    /\ d > (IF k = 0 THEN 0 ELSE dranges[k])
    /\ k < Len(dranges) => d <= dranges[k + 1]

\* the diameter, in the active unit, of the j-th pixel given to the binner
BinnedDiameter(j) == ToUnit(core.pixels[j], core.mmPerPixel)

\* C16: for a valid cut-point list of length N and a diameter d > 0 there is
\* exactly one bin k in 0..N with dranges[k-1] < d <= dranges[k], and it is
\* the bin the binner puts d in; a diameter equal to a cut-point goes to the
\* lower bin; with dranges = [2.0, 5.0] the diameter 3.0 goes to bin 1.
C16_OneBinPerDiameter ==
    (core.stage = "binner" /\ core.step = "bin")
      => \A j \in 1..Len(core.chosen) :
            /\ BinnedDiameter(j) > 0
            /\ {k \in 0..Len(core.dranges) : InBin(BinnedDiameter(j), core.dranges, k)}
                 = {core.chosen[j]}
            /\ \A i \in 1..Len(core.dranges) :
                  BinnedDiameter(j) = core.dranges[i] => core.chosen[j] = i - 1
            /\ (core.dranges = <<2 * Scale, 5 * Scale>> /\ BinnedDiameter(j) = 3 * Scale)
                  => core.chosen[j] = 1

C16_Witness ==
    /\ core.stage = "binner" /\ core.step = "bin"
    /\ core.dranges = <<2 * Scale, 5 * Scale>> /\ core.mmPerPixel = Scale
    /\ core.pixels = <<3 * Scale, 2 * Scale, 7 * Scale>>
    /\ core.chosen = <<1, 0, 2>>

\* the sum of the accumulators of bins 1..n
RECURSIVE SumBins(_, _)
SumBins(bins, n) ==
    IF n = 0 THEN EmptyBin ELSE Accumulate(SumBins(bins, n - 1), bins[n])

\* the totals of the first n pixels, computed without bins
RECURSIVE Unbinned(_, _, _)
Unbinned(pixels, mmPerPixel, n) ==
    IF n = 0 THEN EmptyBin
    ELSE Accumulate(Unbinned(pixels, mmPerPixel, n - 1),
                    Contribution(ToUnit(pixels[n], mmPerPixel)))

\* C17: the per-bin length, projected area, surface area and volume sum,
\* over all bins, to the totals computed without bins: every skeleton pixel
\* is added to exactly one bin; an empty cut-point list gives one bin that
\* holds the totals.
C17_BinsSumToTotals ==
    (core.stage = "binner" /\ core.step = "bin")
      => /\ Len(core.bins) = Len(core.dranges) + 1
         /\ Len(core.chosen) = core.next - 1
         /\ \A j \in 1..Len(core.chosen) : core.chosen[j] \in 0..Len(core.dranges)
         /\ SumBins(core.bins, Len(core.bins))
              = Unbinned(core.pixels, core.mmPerPixel, core.next - 1)
         /\ SumBins(core.bins, Len(core.bins)).length = (core.next - 1) * Scale
         /\ core.dranges = <<>>
              => /\ Len(core.bins) = 1
                 /\ core.bins[1] = Unbinned(core.pixels, core.mmPerPixel, core.next - 1)

C17_Witness ==
    /\ core.stage = "binner" /\ core.step = "bin"
    /\ Len(core.dranges) = 2
    /\ Len(core.pixels) >= 2 /\ core.next = Len(core.pixels) + 1
    /\ core.bins[1].length > 0 /\ core.bins[3].volume > 0

\* the mask kept is a largest 8-connected component of the foreground S,
\* the one the scan finds first among equally large ones; nothing is kept
\* when S is empty
LargestFirstFound(kept, S) ==
    IF S = {} THEN kept = {}
    ELSE /\ \E k \in 1..Len(Label(S, <<>>)) : kept = Label(S, <<>>)[k]
         /\ \A j \in 1..Len(Label(S, <<>>)) :
               \/ Cardinality(Label(S, <<>>)[j]) < Cardinality(kept)
               \/ /\ Cardinality(Label(S, <<>>)[j]) = Cardinality(kept)
                  /\ Rank(FirstPixel(kept)) <= Rank(FirstPixel(Label(S, <<>>)[j]))

C19_PruningIdempotent ==
    (core.stage = "pruner" /\ core.run = 2)
      => /\ core.removed = 0 /\ core.passes = 0
         /\ core.graph = core.pruned

C19_Witness ==
    /\ core.stage = "pruner" /\ core.run = 2 /\ core.step = "done"
    /\ core.pruned # core.input
    /\ core.graph = core.pruned

\* the tips of the graph: the far ends of the segments that end in a tip and
\* the near ends of the segments without a parent
TipCount(graph) ==
    Cardinality({i \in 1..Len(graph) : EndsInTip(graph, i)})
      + Cardinality({i \in 1..Len(graph) : graph[i].alive /\ graph[i].parent = 0})

AnalysisParameters ==
    {"roottype", "threshold", "invertimage", "keepLargest", "filterbknoise",
     "filterfgnoise", "maxcompsizebk", "maxcompsizefg", "enablesmooththresh",
     "smooththresh", "enableRootPruning", "rootPruningThreshold", "pixelconv",
     "conversion", "pixelspermm", "dranges", "outputFile", "outputPath"}

\* the fields of the configuration other than those of F
FieldsBut(F) == (DOMAIN config) \ F

\* the configuration has the analysis parameters parseCommandLine returned
ParametersAsParsed ==
    \A f \in AnalysisParameters :
        config[f] = parseCommandLine(argv, disk0, gui).config[f]

\* the step is a later iteration of the batch loop
LaterImage == pc = "loop" /\ idx >= 1 /\ idx' = idx + 1

\* C21: the analysis parameters of the configuration are not changed by
\* analyzeImage or by the batch loop: they are the same for the last image
\* as for the first, and only the fields inputPath, imagefilename, input,
\* features, seg and processed change between images.
C21_OnlyPerImageFieldsChange ==
    /\ [](pc \in {"loop", "exit"} => ParametersAsParsed)
    /\ [][LaterImage
            => \A f \in FieldsBut({"inputPath", "imagefilename", "input",
                                   "features", "seg", "processed"}) :
                  config'[f] = config[f]]_vars

\* C21, amended: the analysis parameters of the configuration are not
\* changed by analyzeImage or by the batch loop, and only the fields
\* inputPath, imagefilename, input, features, rootlengthhist, roifeatures,
\* seg and processed change between images.
C21_ParametersKept ==
    /\ [](pc \in {"loop", "exit"} => ParametersAsParsed)
    /\ [][LaterImage
            => \A f \in FieldsBut({"inputPath", "imagefilename", "input",
                                   "features", "rootlengthhist", "roifeatures",
                                   "seg", "processed"}) :
                  config'[f] = config[f]]_vars

C21_Witness ==
    /\ pc = "loop" /\ idx = 2 /\ Len(processedFiles) = 2
    /\ rois = <<>>
    /\ config.inputPath = imageFiles[2]
    /\ config.features # <<>>
    /\ config.dranges = <<2 * Scale, 5 * Scale>>

\* the index of the first token of args, from k on, that is no list of
\* numbers; Len(args) + 1 when there is none
RECURSIVE FirstOther(_, _)
FirstOther(args, k) ==
    IF k > Len(args) \/ ~IsNumberList(args[k]) THEN k
    ELSE FirstOther(args, k + 1)

\* the numbers the tokens args[a..b] list, in order
RECURSIVE NumbersIn(_, _, _)
NumbersIn(args, a, b) ==
    IF a > b THEN <<>> ELSE ValuesOf(args[a]) \o NumbersIn(args, a + 1, b)

\* the configuration without its cut-points
ButDranges(c) == [f \in (DOMAIN c) \ {"dranges"} |-> c[f]]

\* the command line is --dranges followed by lists of positive ascending
\* numbers, if any, and then by other tokens
DrangesThenOthers ==
    /\ argv # <<>> /\ argv[1] = Lit["--dranges"]
    /\ AllPositive(NumbersIn(argv, 2, FirstOther(argv, 2) - 1))
    /\ Ascending(NumbersIn(argv, 2, FirstOther(argv, 2) - 1))

\* what parseCommandLine returns for the tokens that follow --dranges and
\* its numbers
ParseOfOthers ==
    parseCommandLine(SubSeq(argv, FirstOther(argv, 2), Len(argv)), disk0, gui)

BadList(tok) ==
    /\ tok # <<>> /\ tok[1] # "-"
    /\ \E k \in 1..Len(tok) : tok[k] = ","
    /\ \E k \in 1..Len(GetlinePieces(tok, 1)) :
          /\ trim_ws(GetlinePieces(tok, 1)[k]) # <<>>
          /\ ~is_positive_number_like(trim_ws(GetlinePieces(tok, 1)[k]))

\* the first token after --dranges and its numbers is a rejected list
StopsAtBadList ==
    /\ FirstOther(argv, 2) <= Len(argv)
    /\ BadList(argv[FirstOther(argv, 2)])

RECURSIVE ValueTexts(_, _, _, _)
ValueTexts(args, i, a, b) ==
    IF i >= Len(args) THEN {}
    ELSE IF args[i] \in ValueOptions
    THEN (IF args[i] \in {Lit[a], Lit[b]} THEN {args[i + 1]} ELSE {})
            \cup ValueTexts(args, i + 2, a, b)
    ELSE ValueTexts(args, i + 1, a, b)

\* the integers the command line gives as threshold and as root type
ThresholdsGiven == {atoi(v) : v \in ValueTexts(argv, 1, "-t", "--threshold")}

RootTypesGiven == {atoi(v) : v \in ValueTexts(argv, 1, "-rt", "--roottype")}

\* C23: after parseCommandLine the threshold is in 0..255 and the root type
\* is 0 or 1; they are the default or a value given in that range; a
\* threshold given outside 0..255 or a root type given other than 0 and 1
\* is not stored and sets the error flag.
C23_ThresholdAndRootTypeInRange ==
    pc # "start"
      => /\ config.threshold \in 0..255
         /\ config.roottype \in {0, 1}
         /\ config.threshold \in {200} \cup (ThresholdsGiven \cap 0..255)
         /\ config.roottype \in {1} \cup (RootTypesGiven \cap {0, 1})
         /\ (ThresholdsGiven \ (0..255) # {} \/ RootTypesGiven \ {0, 1} # {})
               => config.showHelp /\ HasError(cerr)

C23_Witness ==
    /\ pc = "parsed"
    /\ argv = <<Lit["-t"], Lit["300"], Lit["i.png"]>>
    /\ config.threshold = 200 /\ config.showHelp
    /\ cerr = <<[level |-> "Error", text |-> "--threshold must be between 0 and 255."]>>

\* ------------------------------------------------------------------------
\* Several runs of rv, one after the other, on the same disk
\* ------------------------------------------------------------------------
MaxRuns == 3

\* the command lines of the runs: the defaults, another root type, other
\* cut-points, converted units, --noappend, another output file, an
\* invalid threshold, a path that does not exist
RunArgLists ==
    {<<Lit["i.png"]>>,
     <<Lit["-rt"], Lit["0"], Lit["i.png"]>>,
     <<Lit["--dranges"], Lit["1.0,3.0,6.0"], Lit["i.png"]>>,
     <<Lit["--convert"], Lit["--factordpi"], Lit["300"], Lit["i.png"]>>,
     <<Lit["-na"], Lit["i.png"]>>,
     <<Lit["-o"], Lit["o.csv"], Lit["i.png"]>>,
     <<Lit["-t"], Lit["300"], Lit["i.png"]>>,
     <<Lit["x"]>>}

\* the rows the run that ended wrote to its output file
RowsWritten ==
    [i \in 1..Len(processedFiles) |-> ResultRow(processedFiles, allFeatures, roinames, i)]

\* rv is run again on the disk the run that ended left; core keeps the
\* configuration and the rows of the runs that ended
RunAgain ==
    /\ pc = "exit"
    /\ core.stage = "runs"
    /\ Len(core.history) + 1 < MaxRuns
    /\ \E args \in RunArgLists : argv' = args
    /\ core' = [core EXCEPT !.history = Append(@, [config |-> config, rows |-> RowsWritten])]
    /\ disk0' = disk
    /\ pc' = "start"
    /\ config' = DefaultConfig
    /\ cerr' = <<>>
    /\ exitCode' = -1
    /\ imageFiles' = <<>>
    /\ idx' = 0
    /\ allFeatures' = <<>>
    /\ processedFiles' = <<>>
    /\ roinames' = <<>>
    /\ log' = <<>>
    /\ UNCHANGED <<gui, rois, disk>>

NextRuns ==
    \/ ParseCommandLine
    \/ ShowInfo
    \/ CollectImages
    \/ AnalyzeNext
    \/ WriteResults
    \/ RunAgain

\* the first run starts on a disk with or without the CSV file of an
\* earlier run
InitRuns ==
    \E args \in RunArgLists, old \in BOOLEAN :
        /\ argv = args
        /\ gui = FALSE
        /\ rois = <<>>
        /\ disk = MakeDisk("good", <<"good", "good">>, old)
        /\ disk0 = disk
        /\ pc = "start"
        /\ config = DefaultConfig
        /\ cerr = <<>>
        /\ exitCode = -1
        /\ imageFiles = <<>>
        /\ idx = 0
        /\ allFeatures = <<>>
        /\ processedFiles = <<>>
        /\ roinames = <<>>
        /\ log = <<>>
        /\ core = [stage |-> "runs", first |-> disk, history |-> <<>>]

SpecRuns == InitRuns /\ [][NextRuns]_vars

\* the runs so far that wrote rows, in run order
WroteRows(r) == r.rows # <<>>

Writers ==
    SelectSeq(core.history \o (IF pc = "exit"
                               THEN <<[config |-> config, rows |-> RowsWritten]>>
                               ELSE <<>>),
              WroteRows)

RECURSIVE RowsOf(_)
RowsOf(runs) == IF runs = <<>> THEN <<>> ELSE Head(runs).rows \o RowsOf(Tail(runs))

\* some run wrote, and every run that wrote did so in append mode to the
\* file named F, which did not exist before the first run
AppendedToNewFile(F) ==
    /\ core.stage = "runs"
    /\ Writers # <<>>
    /\ F \notin DOMAIN core.first.files
    /\ \A k \in 1..Len(Writers) :
          /\ Canon(Writers[k].config.outputFile) = F
          /\ ~Writers[k].config.noappend

IsHeaderLine(line) == line # <<>> /\ line[1] = Col("File.Name", 0, "")

\* C24: in append mode, over any sequence of runs that write to the same
\* output file, which did not exist before the first run, the file holds
\* exactly one header line, as its first line, followed by the rows of all
\* runs in run order.
C24_OneHeaderThenRowsOfAllRuns ==
    \A F \in {Lit["/w/features.csv"], Lit["/w/o.csv"]} :
        AppendedToNewFile(F)
          => /\ F \in DOMAIN disk.files
             /\ disk.files[F].lines = <<writeCsvHeader(Writers[1].config)>> \o RowsOf(Writers)
             /\ \A k \in 1..Len(disk.files[F].lines) :
                   IsHeaderLine(disk.files[F].lines[k]) <=> k = 1

C24_Witness ==
    /\ pc = "exit" /\ core.stage = "runs" /\ Len(core.history) = 2
    /\ AppendedToNewFile(Lit["/w/features.csv"])
    /\ Len(Writers) = 3
    /\ Writers[1].config.roottype = 0 /\ Writers[3].config.roottype = 1
    /\ Len(disk.files[Lit["/w/features.csv"]].lines) = 4

\* ------------------------------------------------------------------------
\* Runs with regions of interest that reach the edges of the image, in a
\* build with the GUI; the last command line names no input path
\* ------------------------------------------------------------------------
\* a region inside the image, one that touches its right and bottom edge,
\* one that reaches beyond it, an empty one
EdgeRects ==
    RoiRects \cup {Roi(<<"E">>, ImgCols - 2, ImgRows - 2, 2, 2)}

InitRois ==
    \E r \in SeqsUpTo(EdgeRects, MaxRois) \ {<<>>}, dsk \in FewDisks,
       q \in {<<Lit["d"]>>, <<Lit["i.png"]>>, <<>>} :
        InitRun(<<Lit["--roipath"], Lit["n.txt"]>> \o q, TRUE, r, dsk)

SpecRois == InitRois /\ [][Next]_vars

\* the position in log of the last image read
RECURSIVE LastImread(_)
LastImread(k) ==
    IF k = 0 \/ log[k].ev = "imread" THEN k ELSE LastImread(k - 1)

IsExtract(e) == e.ev = "extract"

\* the inputs the extractor ran on for the last image read
ExtractsOfLast ==
    SelectSeq(SubSeq(log, LastImread(Len(log)) + 1, Len(log)), IsExtract)

\* rect has positive width and height and lies entirely inside input
LiesInside(rect, input) ==
    /\ rect.w > 0 /\ rect.h > 0
    /\ rect.x + rect.w <= input.w /\ rect.y + rect.h <= input.h

\* the sub-rectangle rect of input
SubRectangle(rect, input) ==
    [input EXCEPT !.x = rect.x, !.y = rect.y, !.w = rect.w, !.h = rect.h]

\* out holds a part drawn at exactly the rectangle at
DrawnAt(out, at) == \E k \in 1..Len(out.parts) : out.parts[k].at = at

\* C25: with regions of interest active the extractor runs exactly once per
\* region per image, and for every region of positive width and height
\* inside the image (x + width <= columns, y + height <= rows) its input is
\* exactly that sub-rectangle and its overlay is drawn into exactly that
\* rectangle of the full-size outputs.
C25_RoiRunsOnItsRectangle ==
    (pc = "loop" /\ idx >= 1 /\ Len(rois) > 0 /\ ~MatEmpty(config.input))
      => /\ Len(ExtractsOfLast) = Len(rois)
         /\ \A i \in 1..Len(rois) :
               LiesInside(rois[i], config.input)
                 => /\ ExtractsOfLast[i].input = SubRectangle(rois[i], config.input)
                    /\ DrawnAt(config.processed, SubRectangle(rois[i], config.input))
                    /\ DrawnAt(config.seg, SubRectangle(rois[i], config.input))

\* the run that shows it: one region that touches the right and bottom edge
C25_EdgeRegionIgnored ==
    /\ pc = "loop" /\ idx = 1
    /\ rois = <<Roi(<<"E">>, ImgCols - 2, ImgRows - 2, 2, 2)>>
    /\ Len(ExtractsOfLast) = 1
    /\ ExtractsOfLast[1].input = config.input
    /\ \E k \in 1..Len(cerr) : cerr[k].level = "Warning"

\* ------------------------------------------------------------------------
\* Command lines that give the same options in every order
\* ------------------------------------------------------------------------
MaxUnits == 3

\* options, each with its value or values: root type and the features the
\* override for broken roots switches off, the unit conversion, the
\* cut-points, the output, a feature with its dependent option, --version
OrderItems ==
    {<<Lit["-rt"], Lit["0"]>>, <<Lit["-ch"]>>,
     <<Lit["--convert"]>>, <<Lit["--factordpi"], Lit["300"]>>,
     <<Lit["--factorpixels"], Lit["2.0"]>>,
     <<Lit["--dranges"], Lit["1.0"], Lit["3.0"]>>,
     <<Lit["-o"], Lit["o.csv"]>>, <<Lit["-op"], Lit["d"]>>,
     <<Lit["-t"], Lit["140"]>>, <<Lit["-na"]>>,
     <<Lit["--prune"]>>, <<Lit["--prunethreshold"], Lit["2"]>>,
     <<Lit["--version"]>>}

\* whether no item of items occurs twice
Distinct(items) ==
    \A j, k \in 1..Len(items) : j # k => items[j] # items[k]

\* a run on at most MaxUnits different options followed by an image file;
\* core keeps the options as they were given
InitOrder ==
    \E items \in SeqsUpTo(OrderItems, MaxUnits) :
        /\ Distinct(items)
        /\ argv = Flatten(items) \o <<Lit["i.png"]>>
        /\ gui = FALSE
        /\ rois = <<>>
        /\ disk = MakeDisk("good", <<"good">>, FALSE)
        /\ disk0 = disk
        /\ pc = "start"
        /\ config = DefaultConfig
        /\ cerr = <<>>
        /\ exitCode = -1
        /\ imageFiles = <<>>
        /\ idx = 0
        /\ allFeatures = <<>>
        /\ processedFiles = <<>>
        /\ roinames = <<>>
        /\ log = <<>>
        /\ core = [stage |-> "order", items |-> items]

SpecOrder == InitOrder /\ [][Next]_vars

\* the orders in which n options can be given
Orders(n) ==
    {p \in [1..n -> 1..n] : \A j, k \in 1..n : j # k => p[j] # p[k]}

\* the command line that gives the options of the run in the order p
Reordered(p) ==
    Flatten([k \in 1..Len(core.items) |-> core.items[p[k]]]) \o <<Lit["i.png"]>>

\* C26: the configuration parseCommandLine returns does not depend on the
\* order of the options: when a command line with each option at most once
\* parses without error, every permutation of its options (an option with
\* its values as one unit) gives the same configuration.
C26_OptionOrderIrrelevant ==
    (core.stage = "order" /\ pc = "parsed" /\ ~HasError(cerr))
      => \A p \in Orders(Len(core.items)) :
            parseCommandLine(Reordered(p), disk0, gui).config = config

C26_Witness ==
    /\ core.stage = "order" /\ pc = "parsed" /\ ~HasError(cerr)
    /\ core.items = <<<<Lit["-ch"]>>, <<Lit["--factordpi"], Lit["300"]>>, <<Lit["--convert"]>>>>
    /\ ~config.showConvexHull
    /\ config.pixelconv /\ config.conversion = 300 * Scale

\* parseCommandLine wrote an error message for the command line of the run
ParseReportedError == HasError(parseCommandLine(argv, disk0, gui).cerr)

\* C27: whenever parseCommandLine reported an error the exit status of the
\* run is not zero, whatever other options the command line holds.
C27_ParseErrorExitsNonZero ==
    (pc = "exit" /\ ParseReportedError) => exitCode # 0

\* the run that shows it: -h before an option that lacks its value
C27_HelpHidesError ==
    /\ pc = "exit"
    /\ argv = <<Lit["-h"], Lit["-t"]>>
    /\ cerr = <<[level |-> "Error", text |-> "--threshold requires a value."]>>
    /\ exitCode = 0

\* ------------------------------------------------------------------------
\* Runs on every disk, with and without a request for information
\* ------------------------------------------------------------------------
\* the command lines: nothing, --version, -h or an invalid threshold before
\* a directory, an image file, a text file or a path that does not exist
ExitArgLists ==
    {pre \o <<q>> :
        pre \in {<<>>, <<Lit["--version"]>>, <<Lit["-h"]>>, <<Lit["-t"], Lit["300"]>>},
        q \in {Lit["d"], Lit["i.png"], Lit["n.txt"], Lit["x"]}}

InitExit ==
    \E args \in ExitArgLists, dsk \in AllDisks : InitRun(args, FALSE, <<>>, dsk)

SpecExit == InitExit /\ [][Next]_vars

\* the parse of the command line of the run reported no error and found an
\* input path
ParsedWithInput ==
    /\ ~ParseReportedError
    /\ parseCommandLine(argv, disk0, gui).config.inputPath # <<>>

\* one of the files the run collected is an image the extractor succeeds on
SomeImageSucceeds ==
    \E k \in 1..Len(imageFiles) :
        /\ Canon(imageFiles[k]) \in DOMAIN disk0.files
        /\ disk0.files[Canon(imageFiles[k])].kind = "good"

EveryImageSucceeds ==
    \A k \in 1..Len(imageFiles) : disk0.files[Canon(imageFiles[k])].kind = "good"

\* the command line asks for the usage, the version, the license or the
\* credits
AsksForInformation ==
    config.showHelp \/ config.showVersion \/ config.showLicense \/ config.showCredits

\* C28: after a parse without error that found an input path the exit
\* status is 0 if and only if at least one image was analyzed successfully:
\* 1 when no supported image is found or every image fails, 0 when some
\* fail and at least one succeeds.
C28_ExitZeroIffImageAnalyzed ==
    (pc = "exit" /\ ParsedWithInput)
      => /\ exitCode \in {0, 1}
         /\ exitCode = 0 <=> SomeImageSucceeds

\* C28, amended: the same for the runs that do not ask for the usage, the
\* version, the license or the credits; a run that asks for one of them
\* ends with exit status 0 and analyzes no image.
C28_ExitZeroIffAnalyzedOrInformation ==
    (pc = "exit" /\ ParsedWithInput)
      => /\ exitCode \in {0, 1}
         /\ IF AsksForInformation
            THEN exitCode = 0 /\ imageFiles = <<>> /\ processedFiles = <<>>
            ELSE /\ exitCode = 0 <=> SomeImageSucceeds
                 /\ SomeImageSucceeds <=> processedFiles # <<>>

C28_Witness ==
    /\ pc = "exit" /\ ParsedWithInput /\ ~AsksForInformation
    /\ Len(imageFiles) = 2
    /\ SomeImageSucceeds /\ ~EveryImageSucceeds
    /\ exitCode = 0
    /\ Len(processedFiles) = 1

\* the options without a value that switch a feature on
BooleanOptions ==
    {Lit[o] : o \in {"-kl", "--keeplargest", "-ma", "--medialaxis",
                     "-ch", "--convexhull", "-ho", "--holes", "-co", "--contours"}}

\* the positions from i on at which args holds an option, read left to
\* right (an option with a value takes the next token)
RECURSIVE OptionPositions(_, _)
OptionPositions(args, i) ==
    IF i > Len(args) THEN {}
    ELSE IF args[i] \in ValueOptions THEN {i} \cup OptionPositions(args, i + 2)
    ELSE {i} \cup OptionPositions(args, i + 1)

\* args without its token k
Without(args, k) == SubSeq(args, 1, k - 1) \o SubSeq(args, k + 1, Len(args))

\* C29: keepLargest is true in the configuration only when -kl or
\* --keeplargest was given, and every boolean option (-kl, -ma, -ch, -ho,
\* -co) changes the configuration compared with the same command line
\* without it.
C29_BooleanOptionsChangeConfiguration ==
    pc = "parsed"
      => /\ config.keepLargest
              => \E k \in OptionPositions(argv, 1) :
                    argv[k] \in {Lit["-kl"], Lit["--keeplargest"]}
         /\ \A k \in OptionPositions(argv, 1) :
               argv[k] \in BooleanOptions
                 => parseCommandLine(Without(argv, k), disk0, gui).config # config

\* the run that shows it: -kl leaves the configuration as it is without it
C29_KeepLargestChangesNothing ==
    /\ pc = "parsed"
    /\ argv = <<Lit["-kl"], Lit["i.png"]>>
    /\ config.keepLargest
    /\ parseCommandLine(<<Lit["i.png"]>>, disk0, gui).config = config

\* the position of the last header line of lines at or above line j, 0 when
\* there is none
RECURSIVE HeaderAbove(_, _)
HeaderAbove(lines, j) ==
    IF j = 0 \/ IsHeaderLine(lines[j]) THEN j ELSE HeaderAbove(lines, j - 1)

\* every row of lines has as many values as the header above it has columns
RowsFitHeader(lines) ==
    \A j \in 1..Len(lines) :
        /\ HeaderAbove(lines, j) > 0
        /\ Len(lines[j]) = Len(lines[HeaderAbove(lines, j)])

\* C30: over any sequence of runs appending to the same output file every
\* data row has the schema of the header above it (root type, unit mode,
\* number of diameter ranges): the header above the rows of a run is the
\* header of its configuration, and every row has as many values as that
\* header has columns.
C30_RowsHaveSchemaOfHeader ==
    (core.stage = "runs" /\ pc = "exit" /\ processedFiles # <<>>)
      => /\ Canon(config.outputFile) \in DOMAIN disk.files
         /\ HeaderAbove(disk.files[Canon(config.outputFile)].lines,
                        Len(disk.files[Canon(config.outputFile)].lines)) > 0
         /\ disk.files[Canon(config.outputFile)].lines[
                HeaderAbove(disk.files[Canon(config.outputFile)].lines,
                            Len(disk.files[Canon(config.outputFile)].lines))]
              = writeCsvHeader(config)
         /\ RowsFitHeader(disk.files[Canon(config.outputFile)].lines)

\* the runs that show it: rv i.png, then rv -rt 0 i.png on the same file
C30_WholeRootRowUnderBrokenRootHeader ==
    /\ core.stage = "runs" /\ pc = "exit"
    /\ Len(core.history) = 1
    /\ core.history[1].config.roottype = 1 /\ ~core.history[1].config.noappend
    /\ core.first = MakeDisk("good", <<"good", "good">>, FALSE)
    /\ argv = <<Lit["-rt"], Lit["0"], Lit["i.png"]>>
    /\ Len(disk.files[Lit["/w/features.csv"]].lines) = 3
    /\ disk.files[Lit["/w/features.csv"]].lines[1] = writeCsvHeader(core.history[1].config)
    /\ Len(disk.files[Lit["/w/features.csv"]].lines[1]) = 26
    /\ Len(disk.files[Lit["/w/features.csv"]].lines[3]) = 38

====
